---- MODULE Spec2Model ----
(***************************************************************************)
(* Model of the financial normalization / ratio / valuation core of the    *)
(* DART financial analysis backend.                                        *)
(*                                                                         *)
(* Korean literals of the source are written in ASCII:                     *)
(*   "TotalAssets"      = U+C790 U+C0B0 U+CD1D U+ACC4   (jasan-chonggye)   *)
(*   "TotalLiabilities" = buchae-chonggye                                  *)
(*   "TotalEquity"      = jabon-chonggye                                   *)
(*   "Revenue"          = maechul-aek                                      *)
(*   "OperatingIncome"  = yeongeop-iik                                     *)
(*   "NetIncome"        = danggi-sunniik                                   *)
(*   "OperatingMargin", "NetMargin", "ROE", "ROA", "DebtRatio",            *)
(*   "EquityRatio"      = the six ratio names of the RatioSet              *)
(* Python floats are modelled as exact rationals [n, d] in lowest terms.   *)
(* An optional value (a dict key that is missing or None) is a sequence of *)
(* length at most one: <<>> is None, <<v>> is the value v.                 *)
(* A record of the list is a dict: a key the dict lacks is a field the     *)
(* record lacks; account_id and account_nm are strings, and a dict that    *)
(* holds None under one of them lacks that field and names the key in its  *)
(* field "none".                                                           *)
(***************************************************************************)
EXTENDS Integers, Sequences, FiniteSets, TLC

VARIABLES
    data,        \* the record list handed to prepare_data / calculate_ratios
    runs,        \* how many times the Account Normalizer has run on data
    raised,      \* <<>> or <<the exception the normalizer raised to its caller>>
    ratios,      \* <<>> or <<[by |-> calculator, set |-> RatioSet]>>: the last calculation
    stock_info,  \* <<>> or <<the dict returned by StockService.get_stock_info>>
    valuation,   \* <<>> or <<[by, PER, PBR, note]>>: the last PER/PBR result
    path,        \* "html" (UnlistedFinancialService) or "pdf" (DocumentFinancialService)
    ppc,         \* the stage the extraction attempt is at
    upstage,     \* whether the service holds an extraction provider
    reports,     \* the reports search_report_documents returned
    selected,    \* <<>> or <<the selected report>>
    file,        \* the temporary file: "absent", "partial" or "complete"
    downloaded,  \* <<>> or <<the receipt number the download was asked for>>
    stages,      \* the stages the attempt has run, in order
    failed,      \* <<>> or <<the stage that failed>>
    outcome,     \* <<>> or <<what the entry point returned or raised>>
    request,     \* <<>> or <<request.corp_codes>> of the comparison route
    ci,          \* index in request.corp_codes of the company being fetched
    yi,          \* index in years of the year being fetched
    all_financial_data,        \* the items collected for the current company
    company_info,              \* dict corp_code -> company, in insertion order
    companies_financial_data,  \* dict corp_code -> item list, in insertion order
    companies_comparison_data, \* <<>> or <<the dict prepare_comparison_data returned>>
    response,    \* <<>> or <<what the comparison route answered>>
    services,    \* the DARTService objects built so far, one per request
    accesses,    \* how many times get_corp_list has been called in the process
    last_access, \* <<>> or <<what the last get_corp_list call did>>
    fpc,         \* the step DARTService.get_financial_data is at
    fin_req,     \* <<>> or <<the arguments and the company of the call>>
    fin_calls,   \* the collaborators the call has invoked, in order
    fin_result,  \* <<>> or <<what the call returned or raised>>
    result_text, \* <<>> or <<the content of the extraction capability's response>>
    extraction,  \* <<>> or <<what the extraction step returned or raised>>
    apc,         \* the step each of two concurrent extraction attempts is at
    tmp,         \* the temporary file of the document the two attempts share
    aread,       \* <<>> or <<the file handle of the attempt and what it read>>
    aout         \* <<>> or <<how each attempt ended>>

calcVars == <<data, runs, raised, ratios>>
valVars == <<stock_info, valuation>>
pipeVars == <<path, ppc, upstage, reports, selected, file, downloaded, stages,
              failed, outcome>>
cmpVars == <<request, ci, yi, all_financial_data, company_info,
             companies_financial_data, companies_comparison_data, response>>
dirVars == <<services, accesses, last_access>>
finVars == <<fpc, fin_req, fin_calls, fin_result>>
jsonVars == <<result_text, extraction>>
raceVars == <<apc, tmp, aread, aout>>
vars == <<data, runs, raised, ratios, stock_info, valuation,
          path, ppc, upstage, reports, selected, file, downloaded, stages, failed,
          outcome,
          request, ci, yi, all_financial_data, company_info,
          companies_financial_data, companies_comparison_data, response,
          services, accesses, last_access, fpc, fin_req, fin_calls, fin_result,
          result_text, extraction, apc, tmp, aread, aout>>

(***************************************************************************)
(* Bounds                                                                  *)
(***************************************************************************)
MaxItems == 2      \* records in one list
MaxRuns == 2       \* normalizer runs on one list

(***************************************************************************)
(* String helpers (Python str operations)                                  *)
(***************************************************************************)
\* sub in s
Contains(s, sub) ==
    \E i \in 1..(Len(s) - Len(sub) + 1) : SubSeq(s, i, i + Len(sub) - 1) = sub

\* value.replace(',', '')
RECURSIVE RemoveCommas(_)
RemoveCommas(s) ==
    IF Len(s) = 0 THEN ""
    ELSE LET c == SubSeq(s, 1, 1)
             rest == RemoveCommas(SubSeq(s, 2, Len(s)))
         IN IF c = "," THEN rest ELSE c \o rest

Digits == {"0", "1", "2", "3", "4", "5", "6", "7", "8", "9"}

DigitVal(c) ==
    CASE c = "0" -> 0 [] c = "1" -> 1 [] c = "2" -> 2 [] c = "3" -> 3
      [] c = "4" -> 4 [] c = "5" -> 5 [] c = "6" -> 6 [] c = "7" -> 7
      [] c = "8" -> 8 [] c = "9" -> 9

RECURSIVE DigitsVal(_)
DigitsVal(s) ==
    IF Len(s) = 0 THEN 0
    ELSE DigitsVal(SubSeq(s, 1, Len(s) - 1)) * 10 + DigitVal(SubSeq(s, Len(s), Len(s)))

AllDigits(s) ==
    /\ Len(s) > 0
    /\ \A i \in 1..Len(s) : SubSeq(s, i, i) \in Digits

\* float(s) on strings over digits, sign, comma and letters: [ok, v].
\* ok = FALSE is the ValueError of float().
PyFloat(s) ==
    LET signed == Len(s) > 0 /\ SubSeq(s, 1, 1) \in {"-", "+"}
        body == IF signed THEN SubSeq(s, 2, Len(s)) ELSE s
    IN IF AllDigits(body)
       THEN [ok |-> TRUE,
             v |-> IF signed /\ SubSeq(s, 1, 1) = "-" THEN 0 - DigitsVal(body)
                   ELSE DigitsVal(body)]
       ELSE [ok |-> FALSE, v |-> 0]

\* _safe_float that forgets value.replace(',', '')
_safe_float_nostrip(value) ==
    IF value = <<>> THEN 0
    ELSE LET f == PyFloat(value[1])
         IN IF f.ok THEN f.v ELSE 0

\* FinancialService._safe_float
_safe_float(value) ==
    IF value = <<>> THEN 0
    ELSE LET f == PyFloat(RemoveCommas(value[1]))
         IN IF f.ok THEN f.v ELSE 0

\* backend.utils.formatters.safe_float
safe_float(value) ==
    IF value = <<>> THEN 0
    ELSE LET stripped == RemoveCommas(value[1])
         IN IF stripped = "" THEN 0
            ELSE LET f == PyFloat(stripped)
                 IN IF f.ok THEN f.v ELSE 0

(***************************************************************************)
(* Rational arithmetic standing for Python float arithmetic                *)
(***************************************************************************)
Abs(x) == IF x < 0 THEN 0 - x ELSE x

RECURSIVE GCD(_, _)
GCD(a, b) == IF b = 0 THEN a ELSE GCD(b, a % b)

\* the rational p / q (q # 0) in lowest terms with a positive denominator
Frac(p, q) ==
    LET g == GCD(Abs(p), Abs(q))
        s == IF q < 0 THEN 0 - 1 ELSE 1
    IN [n |-> s * (p \div g) , d |-> Abs(q) \div g]

Zero == [n |-> 0, d |-> 1]

\* round(value, 2): nearest hundredth, ties to even
Round2(f) ==
    IF 100 % f.d = 0 THEN f
    ELSE LET a == Abs(f.n)
             ip == a \div f.d
             r == a % f.d
             h == (r * 100) \div f.d
             rem2 == (r * 100) % f.d
             up == \/ 2 * rem2 > f.d
                   \/ (2 * rem2 = f.d /\ h % 2 = 1)
             hh == ip * 100 + h + (IF up THEN 1 ELSE 0)
         IN Frac((IF f.n < 0 THEN 0 - hh ELSE hh), 100)

Periods == <<"thstrm", "frmtrm", "bfefrmtrm">>
PeriodSet == {"thstrm", "frmtrm", "bfefrmtrm"}

\* item.get(period + '_amount')
AmountOf(item, period) ==
    LET key == period \o "_amount"
    IN IF key \in DOMAIN item THEN item[key] ELSE <<>>

(***************************************************************************)
(* Python dict helpers                                                     *)
(***************************************************************************)
\* item[f] = v
SetField(item, f, v) ==
    [k \in DOMAIN item \cup {f} |-> IF k = f THEN v ELSE item[k]]

\* item.get(f, '') of account_id / account_nm when the value is not None
StrGet(item, f) == IF f \in DOMAIN item THEN item[f] ELSE ""

\* the dict holds None under the key f
IsNone(item, f) == "none" \in DOMAIN item /\ f \in item.none

\* item.get(f): <<>> when the key is missing
Get(item, f) == IF f \in DOMAIN item THEN <<item[f]>> ELSE <<>>

(***************************************************************************)
(* Account Normalizer                                                      *)
(***************************************************************************)
ACCOUNT_ID_MAP ==
    [id \in {"ifrs-full_Assets", "ifrs-full_Liabilities", "ifrs-full_Equity",
             "ifrs-full_Revenue", "dart_OperatingIncomeLoss",
             "ifrs-full_ProfitLoss",
             "dart_ProfitLossAttributableToOwnersOfParent",
             "ifrs-full_ProfitLossAttributableToOwnersOfParent"} |->
        CASE id = "ifrs-full_Assets" -> "TotalAssets"
          [] id = "ifrs-full_Liabilities" -> "TotalLiabilities"
          [] id = "ifrs-full_Equity" -> "TotalEquity"
          [] id = "ifrs-full_Revenue" -> "Revenue"
          [] id = "dart_OperatingIncomeLoss" -> "OperatingIncome"
          [] OTHER -> "NetIncome"]

CanonicalLabels ==
    {"TotalAssets", "TotalLiabilities", "TotalEquity", "Revenue",
     "OperatingIncome", "NetIncome"}

\* base_display_name that tests the account name before the identifier
BaseName_namefirst(item) ==
    IF Contains(StrGet(item, "account_nm"), "NetIncome") THEN "NetIncome"
    ELSE IF StrGet(item, "account_id") \in DOMAIN ACCOUNT_ID_MAP
    THEN ACCOUNT_ID_MAP[StrGet(item, "account_id")]
    ELSE StrGet(item, "account_nm")

\* first loop of prepare_data: the base_display_name of one record
BaseName(item) ==
    IF StrGet(item, "account_id") \in DOMAIN ACCOUNT_ID_MAP
    THEN ACCOUNT_ID_MAP[StrGet(item, "account_id")]
    ELSE IF Contains(StrGet(item, "account_nm"), "NetIncome") THEN "NetIncome"
    ELSE StrGet(item, "account_nm")

\* the substring test `'...' in account_nm` raises TypeError on None
BaseNameRaises(item) ==
    /\ StrGet(item, "account_id") \notin DOMAIN ACCOUNT_ID_MAP
    /\ IsNone(item, "account_nm")

\* a count of the records by account name instead of base_display_name
CountBase_byName(d, name) ==
    Cardinality({j \in DOMAIN d : StrGet(d[j], "account_nm") = name})

\* Counter(i['base_display_name'] for i in data)[name]
CountBase(d, name) ==
    Cardinality({j \in DOMAIN d : d[j].base_display_name = name})

\* display_name built on a display_name the record already carries
DisplayName_accumulate(d, item) ==
    IF CountBase(d, item.base_display_name) > 1
    THEN (IF "display_name" \in DOMAIN item THEN item.display_name
          ELSE item.base_display_name) \o " (" \o StrGet(item, "account_id") \o ")"
    ELSE item.base_display_name

\* second loop of prepare_data: the display_name of one record
DisplayName(d, item) ==
    IF CountBase(d, item.base_display_name) > 1
    THEN item.base_display_name \o " (" \o StrGet(item, "account_id") \o ")"
    ELSE item.base_display_name

\* str + None in the suffix raises TypeError
DisplayNameRaises(d, item) ==
    CountBase(d, item.base_display_name) > 1 /\ IsNone(item, "account_id")

\* FinancialService.prepare_data when it returns
prepare_data(d) ==
    LET d1 == [i \in DOMAIN d |-> SetField(d[i], "base_display_name", BaseName(d[i]))]
    IN [i \in DOMAIN d |-> SetField(d1[i], "display_name", DisplayName(d1, d1[i]))]

\* FinancialService.prepare_data raises: in the first loop or in the second
prepare_data_raises(d) ==
    LET d1 == [i \in DOMAIN d |-> SetField(d[i], "base_display_name", BaseName(d[i]))]
    IN \/ \E i \in DOMAIN d : BaseNameRaises(d[i])
       \/ \E i \in DOMAIN d : DisplayNameRaises(d1, d1[i])

\* the list as the raising prepare_data leaves it: the records before the
\* one that raised carry the field of the loop that was running
prepare_data_partial(d) ==
    LET d1 == [i \in DOMAIN d |-> SetField(d[i], "base_display_name", BaseName(d[i]))]
    IN IF \E i \in DOMAIN d : BaseNameRaises(d[i])
       THEN LET k == CHOOSE i \in DOMAIN d :
                        /\ BaseNameRaises(d[i])
                        /\ \A j \in 1..(i - 1) : ~BaseNameRaises(d[j])
            IN [i \in DOMAIN d |-> IF i < k THEN d1[i] ELSE d[i]]
       ELSE LET k == CHOOSE i \in DOMAIN d :
                        /\ DisplayNameRaises(d1, d1[i])
                        /\ \A j \in 1..(i - 1) : ~DisplayNameRaises(d1, d1[j])
            IN [i \in DOMAIN d |->
                   IF i < k THEN SetField(d1[i], "display_name", DisplayName(d1, d1[i]))
                   ELSE d1[i]]

\* DARTService._prepare_data (module-level ACCOUNT_ID_MAP, f-string suffix:
\* a None identifier is formatted as "None")
_prepare_data(d) ==
    LET d1 == [i \in DOMAIN d |-> SetField(d[i], "base_display_name", BaseName(d[i]))]
    IN [i \in DOMAIN d |->
          SetField(d1[i], "display_name",
             IF CountBase(d1, d1[i].base_display_name) > 1
             THEN d1[i].base_display_name \o " ("
                     \o (IF IsNone(d1[i], "account_id") THEN "None"
                         ELSE StrGet(d1[i], "account_id")) \o ")"
             ELSE d1[i].base_display_name)]

\* DARTService._prepare_data raises: only the first loop can
_prepare_data_raises(d) == \E i \in DOMAIN d : BaseNameRaises(d[i])

\* the list as the raising _prepare_data leaves it
_prepare_data_partial(d) ==
    LET k == CHOOSE i \in DOMAIN d :
                 /\ BaseNameRaises(d[i])
                 /\ \A j \in 1..(i - 1) : ~BaseNameRaises(d[j])
    IN [i \in DOMAIN d |->
           IF i < k THEN SetField(d[i], "base_display_name", BaseName(d[i])) ELSE d[i]]

(***************************************************************************)
(* Ratio Calculator                                                        *)
(***************************************************************************)
RatioNames ==
    {"OperatingMargin", "NetMargin", "ROE", "ROA", "DebtRatio", "EquityRatio"}

\* the fixed (numerator, denominator) pair of each ratio
RatioPair(r) ==
    CASE r = "OperatingMargin" -> <<"OperatingIncome", "Revenue">>
      [] r = "NetMargin" -> <<"NetIncome", "Revenue">>
      [] r = "ROE" -> <<"NetIncome", "TotalEquity">>
      [] r = "ROA" -> <<"NetIncome", "TotalAssets">>
      [] r = "DebtRatio" -> <<"TotalLiabilities", "TotalEquity">>
      [] r = "EquityRatio" -> <<"TotalEquity", "TotalAssets">>

\* an accounts dict that keeps the first record of a key
LastIndex_first(keys, key) ==
    LET S == {j \in DOMAIN keys : keys[j] = key}
    IN IF S = {} THEN 0 ELSE CHOOSE j \in S : \A k \in S : j <= k

\* the index of the record whose amounts the accounts dict keeps under key:
\* later assignments overwrite earlier ones; 0 when the key is absent, where
\* accounts.get(name, {}).get(period, default) gives the default
LastIndex(keys, key) ==
    LET S == {j \in DOMAIN keys : keys[j] = key}
    IN IF S = {} THEN 0 ELSE CHOOSE j \in S : \A k \in S : k <= j

\* calc_ratio without the zero-denominator branch taking the numerator
calc_ratio_nozero(d, numerator, denominator, period) ==
    LET keys == [i \in DOMAIN d |-> Get(d[i], "base_display_name")]
        num == LET j == LastIndex(keys, <<numerator>>)
               IN IF j = 0 THEN 0 ELSE _safe_float(AmountOf(d[j], period))
        den == LET j == LastIndex(keys, <<denominator>>)
               IN IF j = 0 THEN 1 ELSE _safe_float(AmountOf(d[j], period))
    IN IF den # 0 THEN Frac(num * 100, den) ELSE Frac(num * 100, 1)

\* FinancialService.calculate_ratios.calc_ratio, one period
calc_ratio(d, numerator, denominator, period) ==
    LET keys == [i \in DOMAIN d |-> Get(d[i], "base_display_name")]
        num == LET j == LastIndex(keys, <<numerator>>)
               IN IF j = 0 THEN 0 ELSE _safe_float(AmountOf(d[j], period))
        den == LET j == LastIndex(keys, <<denominator>>)
               IN IF j = 0 THEN 1 ELSE _safe_float(AmountOf(d[j], period))
    IN IF den # 0 THEN Frac(num * 100, den) ELSE Zero

\* FinancialService.calculate_ratios
calculate_ratios(d) ==
    [r \in RatioNames |->
        [p \in PeriodSet |-> calc_ratio(d, RatioPair(r)[1], RatioPair(r)[2], p)]]

\* DARTService._calc_ratios.ratio, one period
ratio(d, numerator, denominator, period) ==
    LET keys == [i \in DOMAIN d |-> Get(d[i], "base_display_name")]
        num == LET j == LastIndex(keys, <<numerator>>)
               IN IF j = 0 THEN 0 ELSE safe_float(AmountOf(d[j], period))
        den == LET j == LastIndex(keys, <<denominator>>)
               IN IF j = 0 THEN 1 ELSE safe_float(AmountOf(d[j], period))
    IN IF den # 0 THEN Round2(Frac(num * 100, den)) ELSE Zero

\* DARTService._calc_ratios
_calc_ratios(d) ==
    [r \in RatioNames |->
        [p \in PeriodSet |-> ratio(d, RatioPair(r)[1], RatioPair(r)[2], p)]]

\* DocumentFinancialService._calc_ratios.ratio, one period: keyed by account_nm
doc_ratio(d, numerator, denominator, period) ==
    LET keys == [i \in DOMAIN d |-> Get(d[i], "account_nm")]
        num == LET j == LastIndex(keys, <<numerator>>)
               IN IF j = 0 THEN 0 ELSE safe_float(AmountOf(d[j], period))
        den == LET j == LastIndex(keys, <<denominator>>)
               IN IF j = 0 THEN 1 ELSE safe_float(AmountOf(d[j], period))
    IN IF den # 0 THEN Round2(Frac(num * 100, den)) ELSE Zero

\* DocumentFinancialService._calc_ratios
doc_calc_ratios(d) ==
    [r \in RatioNames |->
        [p \in PeriodSet |-> doc_ratio(d, RatioPair(r)[1], RatioPair(r)[2], p)]]

(***************************************************************************)
(* Valuation Calculator (PER/PBR)                                          *)
(***************************************************************************)
DigitChar(n) == SubSeq("0123456789", n + 1, n + 1)

\* str(n) for n >= 0
RECURSIVE NatToStr(_)
NatToStr(n) ==
    IF n < 10 THEN DigitChar(n) ELSE NatToStr(n \div 10) \o DigitChar(n % 10)

\* '{:.2f}'.format(f) / f"{f:.2f}"
Fmt2(f) ==
    LET r == Round2(f)
        h == Abs(r.n) * (100 \div r.d)
    IN (IF r.n < 0 THEN "-" ELSE "") \o NatToStr(h \div 100) \o "."
       \o DigitChar((h % 100) \div 10) \o DigitChar(h % 10)

NA == "N/A"
ERR == "ERROR"                      \* the error marker string of the source

NOTE_NO_PRICE_OR_SHARES == "no price or share count"
NOTE_UNLISTED == "unlisted company"
NOTE_NO_SHARES == "no share count (data provider limitation)"
NOTE_CALC_ERROR == "calculation error: "

AllPeriods(v) == [p \in PeriodSet |-> v]

\* accounts.get(name, {}).get(period, 0) of the valuation calculators
ValAmount(d, name, period, withStrip) ==
    LET keys == [i \in DOMAIN d |-> Get(d[i], "base_display_name")]
        j == LastIndex(keys, <<name>>)
    IN IF j = 0 THEN 0
       ELSE IF withStrip THEN _safe_float(AmountOf(d[j], period))
       ELSE safe_float(AmountOf(d[j], period))

\* fs_multiple testing eps != 0 instead of eps > 0
fs_multiple_nonzero(d, name, stock_price, shares, period) ==
    LET amount == ValAmount(d, name, period, TRUE)
        xps == IF shares > 0 THEN Frac(amount, shares) ELSE Zero
    IN IF xps.n # 0 THEN Fmt2(Frac(stock_price * xps.d, xps.n)) ELSE NA

\* one period of the loop of FinancialService.calculate_per_pbr:
\* price / (amount / shares) formatted, or N/A
fs_multiple(d, name, stock_price, shares, period) ==
    LET amount == ValAmount(d, name, period, TRUE)
        xps == IF shares > 0 THEN Frac(amount, shares) ELSE Zero
    IN IF xps.n > 0 THEN Fmt2(Frac(stock_price * xps.d, xps.n)) ELSE NA

\* FinancialService.calculate_per_pbr(data, stock_price, shares);
\* stock_price and shares are optional numbers
calculate_per_pbr(d, stock_price, shares) ==
    IF stock_price = <<>> \/ stock_price = <<0>> \/ shares = <<>> \/ shares = <<0>>
    THEN [by |-> "fs", PER |-> AllPeriods(NA), PBR |-> AllPeriods(NA),
          note |-> <<NOTE_NO_PRICE_OR_SHARES>>]
    ELSE [by |-> "fs",
          PER |-> [p \in PeriodSet |-> fs_multiple(d, "NetIncome", stock_price[1], shares[1], p)],
          PBR |-> [p \in PeriodSet |-> fs_multiple(d, "TotalEquity", stock_price[1], shares[1], p)],
          note |-> <<>>]

\* FinancialService.calculate_per_pbr with a share count that is a non-empty,
\* non-numeric string: `not shares` is false, and `shares > 0` in the first
\* turn of the loop raises TypeError, which nothing catches
calculate_per_pbr_text(d, stock_price) ==
    IF stock_price = <<>> \/ stock_price = <<0>>
    THEN [by |-> "fs", PER |-> AllPeriods(NA), PBR |-> AllPeriods(NA),
          note |-> <<NOTE_NO_PRICE_OR_SHARES>>]
    ELSE [by |-> "fs",
          raised |-> "TypeError: '>' not supported between instances of 'str' and 'int'"]

\* EPS / BPS of StockService.calc_per_pbr for one period
stock_xps(d, name, shares, period) ==
    IF shares > 0 THEN Frac(ValAmount(d, name, period, FALSE), shares) ELSE Zero

\* one period of the loop of StockService.calc_per_pbr with a numeric price:
\* per = price / eps if eps > 0 else None; f"{per:.2f}" if per else 'N/A'
stock_multiple(d, name, stock_price, shares, period) ==
    LET xps == stock_xps(d, name, shares, period)
        m == IF xps.n > 0 THEN <<Frac(stock_price * xps.d, xps.n)>> ELSE <<>>
    IN IF m # <<>> /\ m[1].n # 0 THEN Fmt2(m[1]) ELSE NA

\* calc_per_pbr without the dispatch on the error status
calc_per_pbr_nodispatch(d, si) ==
    IF "status" \notin DOMAIN si
    THEN [by |-> "stock", raised |-> "KeyError: 'status'"]
    ELSE IF si.status = "no_data"
    THEN [by |-> "stock", PER |-> AllPeriods(NA), PBR |-> AllPeriods(NA),
          note |-> <<NOTE_UNLISTED>>]
    ELSE IF "price" \notin DOMAIN si
    THEN [by |-> "stock", raised |-> "KeyError: 'price'"]
    ELSE IF "shares_text" \in DOMAIN si
    THEN [by |-> "stock", PER |-> AllPeriods(ERR), PBR |-> AllPeriods(ERR),
          note |-> <<NOTE_CALC_ERROR \o "'>' not supported between instances of 'str' and 'int'">>]
    ELSE IF si.shares = <<>>
    THEN [by |-> "stock", PER |-> AllPeriods(NA), PBR |-> AllPeriods(NA),
          note |-> <<NOTE_NO_SHARES>>]
    ELSE IF /\ si.price = <<>>
            /\ \E p \in PeriodSet :
                  \/ stock_xps(d, "NetIncome", si.shares[1], p).n > 0
                  \/ stock_xps(d, "TotalEquity", si.shares[1], p).n > 0
    \* None / float raises TypeError inside the try block
    THEN [by |-> "stock", PER |-> AllPeriods(ERR), PBR |-> AllPeriods(ERR),
          note |-> <<NOTE_CALC_ERROR \o "unsupported operand type(s) for /">>]
    ELSE LET price == IF si.price = <<>> THEN 0 ELSE si.price[1]
         IN [by |-> "stock",
             PER |-> [p \in PeriodSet |-> stock_multiple(d, "NetIncome", price, si.shares[1], p)],
             PBR |-> [p \in PeriodSet |-> stock_multiple(d, "TotalEquity", price, si.shares[1], p)],
             note |-> <<>>]

\* StockService.calc_per_pbr(financial_data, stock_info); stock_info is a dict
\* and a key it lacks is a field the record lacks; a share count that is a
\* non-numeric string is the field shares_text
calc_per_pbr(d, si) ==
    IF "status" \notin DOMAIN si
    THEN [by |-> "stock", raised |-> "KeyError: 'status'"]
    ELSE IF si.status = "no_data"
    THEN [by |-> "stock", PER |-> AllPeriods(NA), PBR |-> AllPeriods(NA),
          note |-> <<NOTE_UNLISTED>>]
    ELSE IF si.status = "error"
    THEN IF "message" \notin DOMAIN si
         THEN [by |-> "stock", raised |-> "KeyError: 'message'"]
         ELSE [by |-> "stock", PER |-> AllPeriods(ERR), PBR |-> AllPeriods(ERR),
               note |-> si.message]
    ELSE IF "price" \notin DOMAIN si
    THEN [by |-> "stock", raised |-> "KeyError: 'price'"]
    ELSE IF "shares_text" \in DOMAIN si
    \* `shares > 0` raises TypeError inside the try block
    THEN [by |-> "stock", PER |-> AllPeriods(ERR), PBR |-> AllPeriods(ERR),
          note |-> <<NOTE_CALC_ERROR \o "'>' not supported between instances of 'str' and 'int'">>]
    ELSE IF si.shares = <<>>
    THEN [by |-> "stock", PER |-> AllPeriods(NA), PBR |-> AllPeriods(NA),
          note |-> <<NOTE_NO_SHARES>>]
    ELSE IF /\ si.price = <<>>
            /\ \E p \in PeriodSet :
                  \/ stock_xps(d, "NetIncome", si.shares[1], p).n > 0
                  \/ stock_xps(d, "TotalEquity", si.shares[1], p).n > 0
    \* None / float raises TypeError inside the try block
    THEN [by |-> "stock", PER |-> AllPeriods(ERR), PBR |-> AllPeriods(ERR),
          note |-> <<NOTE_CALC_ERROR \o "unsupported operand type(s) for /">>]
    ELSE LET price == IF si.price = <<>> THEN 0 ELSE si.price[1]
         IN [by |-> "stock",
             PER |-> [p \in PeriodSet |-> stock_multiple(d, "NetIncome", price, si.shares[1], p)],
             PBR |-> [p \in PeriodSet |-> stock_multiple(d, "TotalEquity", price, si.shares[1], p)],
             note |-> <<>>]

(***************************************************************************)
(* Inputs of the normalizer / ratio calculator                             *)
(***************************************************************************)
\* (account_id, account_nm) of the raw records that carry a mapped identifier
IdNames ==
    { <<"ifrs-full_Revenue", "Sales">>,
      <<"dart_OperatingIncomeLoss", "OperatingIncome">>,
      <<"ifrs-full_ProfitLoss", "NetIncome">>,
      <<"ifrs-full_Equity", "TotalEquity">>,
      <<"ifrs-full_Assets", "TotalAssets">>,
      <<"ifrs-full_Liabilities", "TotalLiabilities">> }

\* (thstrm_amount, frmtrm_amount, bfefrmtrm_amount) of the raw records
AmountTriples ==
    { << <<"1,000,000">>, <<"800,000">>, <<"600,000">> >>,
      << <<"100,000">>, <<"-">>, <<>> >>,
      << <<"0">>, <<"-5">>, <<"x">> >> }

Record(id, nm, t) ==
    [account_id |-> id, account_nm |-> nm,
     thstrm_amount |-> t[1], frmtrm_amount |-> t[2], bfefrmtrm_amount |-> t[3]]

\* the raw records a list is drawn from: the mapped identifiers, a record
\* recognised by its name only, and an unrecognised record
RawRecords ==
    { Record(idn[1], idn[2], t) : idn \in IdNames, t \in AmountTriples }
    \cup { Record("", "NetIncome(Loss)", << <<"">>, <<"1,000">>, <<"0">> >>),
           Record("", "Other", << <<"1,000,000">>, <<"800,000">>, <<"600,000">> >>) }

Calculators == {"fs", "dart", "doc"}

(***************************************************************************)
(* Normalizer / ratio calculator as called by the services                 *)
(***************************************************************************)
InitCalc ==
    /\ data = <<>>
    /\ runs = 0
    /\ raised = <<>>
    /\ ratios = <<>>
    /\ stock_info = <<>>
    /\ valuation = <<>>

\* no extraction attempt has started; the temporary file does not exist
InitPipe ==
    /\ path = "none"
    /\ ppc = "idle"
    /\ upstage = TRUE
    /\ reports = <<>>
    /\ selected = <<>>
    /\ downloaded = <<>>
    /\ file = "absent"
    /\ stages = <<>>
    /\ failed = <<>>
    /\ outcome = <<>>

\* no comparison request has arrived
InitCmp ==
    /\ request = <<>>
    /\ ci = 0
    /\ yi = 0
    /\ all_financial_data = <<>>
    /\ company_info = <<>>
    /\ companies_financial_data = <<>>
    /\ companies_comparison_data = <<>>
    /\ response = <<>>

\* a raw record is added to the list before normalization
Receive(r) ==
    /\ runs = 0
    /\ raised = <<>>
    /\ Len(data) < MaxItems
    /\ data' = Append(data, r)
    /\ UNCHANGED <<runs, raised, ratios, valVars, pipeVars, cmpVars, dirVars, finVars, jsonVars, raceVars>>

\* FinancialService.prepare_data(data): returns the list it rewrote in place,
\* or raises and leaves the list as far as it got
PrepareData ==
    /\ runs < MaxRuns
    /\ raised = <<>>
    /\ IF prepare_data_raises(data)
       THEN /\ data' = prepare_data_partial(data)
            /\ raised' = <<"TypeError">>
            /\ UNCHANGED runs
       ELSE /\ data' = prepare_data(data)
            /\ runs' = runs + 1
            /\ UNCHANGED raised
    /\ UNCHANGED <<ratios, valVars, pipeVars, cmpVars, dirVars, finVars, jsonVars, raceVars>>

\* DARTService._prepare_data(data)
DartPrepareData ==
    /\ runs < MaxRuns
    /\ raised = <<>>
    /\ IF _prepare_data_raises(data)
       THEN /\ data' = _prepare_data_partial(data)
            /\ raised' = <<"TypeError">>
            /\ UNCHANGED runs
       ELSE /\ data' = _prepare_data(data)
            /\ runs' = runs + 1
            /\ UNCHANGED raised
    /\ UNCHANGED <<ratios, valVars, pipeVars, cmpVars, dirVars, finVars, jsonVars, raceVars>>

\* FinancialService.calculate_ratios(prepared)
CalculateRatios ==
    /\ runs > 0
    /\ raised = <<>>
    /\ ratios' = <<[by |-> "fs", set |-> calculate_ratios(data)]>>
    /\ UNCHANGED <<data, runs, raised, valVars, pipeVars, cmpVars, dirVars, finVars, jsonVars, raceVars>>

\* DARTService._calc_ratios(processed)
DartCalcRatios ==
    /\ runs > 0
    /\ raised = <<>>
    /\ ratios' = <<[by |-> "dart", set |-> _calc_ratios(data)]>>
    /\ UNCHANGED <<data, runs, raised, valVars, pipeVars, cmpVars, dirVars, finVars, jsonVars, raceVars>>

\* DocumentFinancialService._calc_ratios(result_items)
DocCalcRatios ==
    /\ runs > 0
    /\ raised = <<>>
    /\ ratios' = <<[by |-> "doc", set |-> doc_calc_ratios(data)]>>
    /\ UNCHANGED <<data, runs, raised, valVars, pipeVars, cmpVars, dirVars, finVars, jsonVars, raceVars>>

NextCalc ==
    \/ \E r \in RawRecords : Receive(r)
    \/ PrepareData
    \/ DartPrepareData
    \/ CalculateRatios
    \/ DartCalcRatios
    \/ DocCalcRatios

\* no DARTService has been built and get_financial_data has not been called
InitDart ==
    /\ services = <<>>
    /\ accesses = 0
    /\ last_access = <<>>
    /\ fpc = "idle"
    /\ fin_req = <<>>
    /\ fin_calls = <<>>
    /\ fin_result = <<>>

\* no response has been received from the extraction capability
InitJson ==
    /\ result_text = <<>>
    /\ extraction = <<>>

Attempts == {1, 2}

\* no attempt has started and the temporary file does not exist
InitRace ==
    /\ apc = [a \in Attempts |-> "start"]
    /\ tmp = [path |-> "none", exists |-> FALSE, content |-> <<>>, inode |-> 0]
    /\ aread = [a \in Attempts |-> <<>>]
    /\ aout = [a \in Attempts |-> <<>>]

Init == InitCalc /\ InitPipe /\ InitCmp /\ InitDart /\ InitJson /\ InitRace

Next == NextCalc

Spec == Init /\ [][Next]_vars

(***************************************************************************)
(* Normalizer / ratio calculator on malformed records                      *)
(***************************************************************************)
\* records with a missing or None identifier, a missing or None name, an
\* identifier the table does not know, a name that disagrees with the
\* identifier, and missing, None, empty and non-numeric amounts
OddRecords ==
    { [account_nm |-> "NetIncome(Loss)",
       thstrm_amount |-> <<"1,000">>, frmtrm_amount |-> <<"">>],
      [account_id |-> "ifrs-full_Equity", account_nm |-> "NetIncome of owners",
       thstrm_amount |-> <<"100,000">>, frmtrm_amount |-> <<"x">>,
       bfefrmtrm_amount |-> <<>>],
      [account_id |-> "ifrs-full_Revenue", thstrm_amount |-> <<"1,000,000">>],
      [thstrm_amount |-> <<"-">>],
      [account_id |-> "custom_Item", account_nm |-> "Other",
       thstrm_amount |-> <<"0">>, frmtrm_amount |-> <<>>, bfefrmtrm_amount |-> <<"">>],
      [account_id |-> "", account_nm |-> "Other",
       thstrm_amount |-> <<"600,000">>],
      [none |-> {"account_nm"}, account_id |-> "custom_Item",
       thstrm_amount |-> <<"1,000">>],
      [none |-> {"account_nm"}, account_id |-> "ifrs-full_Assets",
       thstrm_amount |-> <<"800,000">>],
      [none |-> {"account_id"}, account_nm |-> "Other",
       thstrm_amount |-> <<"100,000">>] }

NextRaw ==
    \/ \E r \in OddRecords : Receive(r)
    \/ PrepareData
    \/ DartPrepareData
    \/ CalculateRatios
    \/ DartCalcRatios
    \/ DocCalcRatios

SpecRaw == Init /\ [][NextRaw]_vars

(***************************************************************************)
(* Valuation calculators as called with a stock info                       *)
(***************************************************************************)
ValTriples ==
    { << <<"1,000,000">>, <<"800,000">>, <<"600,000">> >>,
      << <<"-5">>, <<"1,000">>, <<>> >>,
      << <<"0">>, <<"-">>, <<"x">> >> }

\* the records the valuation reads: net income and equity
ValRecords ==
    { Record(id, nm, t) :
        id \in {"ifrs-full_ProfitLoss"}, nm \in {"NetIncome"}, t \in ValTriples }
    \cup { Record(id, nm, t) :
        id \in {"ifrs-full_Equity"}, nm \in {"TotalEquity"}, t \in ValTriples }
    \cup { Record("", "NetIncome(Loss)", << <<"1,000,000">>, <<"800,000">>, <<"600,000">> >>) }

\* stock infos without the status, price or message key, or with a share
\* count that is text
MalformedStockInfos ==
    { [price |-> <<50000>>, shares |-> <<1000>>, message |-> <<>>],
      [status |-> "success", shares |-> <<1000>>, message |-> <<>>],
      [status |-> "error", price |-> <<>>, shares |-> <<>>],
      [status |-> "success", price |-> <<50000>>, shares_text |-> "abc",
       message |-> <<>>],
      [status |-> "success", price |-> <<>>, shares_text |-> "abc",
       message |-> <<>>] }

\* the stock infos the market-data provider can hand over
StockInfos ==
    { [status |-> st, price |-> pr, shares |-> sh, message |-> <<>>] :
        st \in {"success", "partial"},
        pr \in {<<>>, <<0>>, <<50000>>},
        sh \in {<<>>, <<0>>, <<1000>>} }
    \cup { [status |-> "no_data", price |-> <<>>, shares |-> <<>>,
            message |-> <<"unlisted company">>],
           [status |-> "error", price |-> <<>>, shares |-> <<>>,
            message |-> <<"lookup failed: timeout">>] }
    \cup MalformedStockInfos

\* StockService.get_stock_info returns si
GetStockInfo(si) ==
    /\ runs > 0
    /\ stock_info = <<>>
    /\ stock_info' = <<si>>
    /\ UNCHANGED <<calcVars, valuation, pipeVars, cmpVars, dirVars, finVars, jsonVars, raceVars>>

\* StockService.calc_per_pbr({'items': data}, stock_info)
CalcPerPbr ==
    /\ stock_info # <<>>
    /\ valuation' = <<calc_per_pbr(data, stock_info[1])>>
    /\ UNCHANGED <<calcVars, stock_info, pipeVars, cmpVars, dirVars, finVars, jsonVars, raceVars>>

\* FinancialService.calculate_per_pbr(data, stock_price, shares) with the price
\* and the share count of a stock info that has them
CalculatePerPbr ==
    /\ stock_info # <<>>
    /\ "price" \in DOMAIN stock_info[1]
    /\ valuation' =
          IF "shares_text" \in DOMAIN stock_info[1]
          THEN <<calculate_per_pbr_text(data, stock_info[1].price)>>
          ELSE <<calculate_per_pbr(data, stock_info[1].price, stock_info[1].shares)>>
    /\ UNCHANGED <<calcVars, stock_info, pipeVars, cmpVars, dirVars, finVars, jsonVars, raceVars>>

NextVal ==
    \/ \E r \in ValRecords : Receive(r)
    \/ PrepareData
    \/ DartPrepareData
    \/ \E si \in StockInfos : GetStockInfo(si)
    \/ CalcPerPbr
    \/ CalculatePerPbr

SpecVal == Init /\ [][NextVal]_vars

(***************************************************************************)
(* Unlisted-company fallback pipeline                                      *)
(*   "audit report" = gamsa-bogoseo, "business report" = saeop-bogoseo,    *)
(*   "correction" = jeongjeong, "withdrawal" = cheolhoe                    *)
(* os.remove in the cleanup is taken to succeed.                           *)
(***************************************************************************)
MaxDocs == 2       \* disclosures returned for one company and year

\* the disclosures of the provider: report name and receipt number
Disclosures ==
    { [report_nm |-> "audit report", rcept_no |-> "R1"],
      [report_nm |-> "business report", rcept_no |-> "R2"],
      [report_nm |-> "[correction] business report", rcept_no |-> "R3"],
      [report_nm |-> "[withdrawal] audit report", rcept_no |-> "R4"],
      [report_nm |-> "quarterly report", rcept_no |-> "R5"] }

DisclosureLists == UNION { [1..n -> Disclosures] : n \in 0..MaxDocs }

\* [x for x in seq if keep(x)] for the report filters
RECURSIVE FilterByName(_, _, _)
FilterByName(seq, words, banned) ==
    IF seq = <<>> THEN <<>>
    ELSE LET doc == Head(seq)
             rest == FilterByName(Tail(seq), words, banned)
         IN IF /\ \E w \in words : Contains(doc.report_nm, w)
               /\ \A b \in banned : ~Contains(doc.report_nm, b)
            THEN <<doc>> \o rest ELSE rest

\* DARTRepository.search_report_documents
search_report_documents(disclosures) ==
    FilterByName(disclosures, {"business report", "audit report"}, {"correction"})

\* a selection that prefers the business report
select_report_businessfirst(found) ==
    LET audit_reports == FilterByName(found, {"audit report"}, {})
        business_reports == FilterByName(found, {"business report"}, {})
    IN IF business_reports # <<>> THEN <<business_reports[1]>>
       ELSE IF audit_reports # <<>> THEN <<audit_reports[1]>>
       ELSE <<>>

\* steps 2 of get_unlisted_financial_data: <<>> when neither list has an entry
select_report(found) ==
    LET audit_reports == FilterByName(found, {"audit report"}, {})
        business_reports == FilterByName(found, {"business report"}, {})
    IN IF audit_reports # <<>> THEN <<audit_reports[1]>>
       ELSE IF business_reports # <<>> THEN <<business_reports[1]>>
       ELSE <<>>

DARTAPIException(msg) == [type |-> "DARTAPIException", msg |-> msg]
LLMException(msg) == [type |-> "LLMException", msg |-> msg]
OtherException(msg) == [type |-> "Exception", msg |-> msg]

\* str(e) of the wrapped low-level errors
Details == {"", "HTTP 500", "timed out"}

\* the except clauses of get_unlisted_financial_data: what the caller sees
unlisted_on_exception(e) ==
    IF e.type \in {"DARTAPIException", "LLMException"}
    THEN [kind |-> "raise", type |-> e.type, msg |-> e.msg]
    ELSE [kind |-> "raise", type |-> "DARTAPIException",
          msg |-> "unlisted financial data lookup failed: " \o e.msg]

\* except clauses that re-raise the typed errors, as the unlisted service does
document_on_exception_reraise(e) ==
    IF e.type \in {"DARTAPIException", "LLMException"}
    THEN [kind |-> "raise", type |-> e.type, msg |-> e.msg]
    ELSE [kind |-> "return", success |-> FALSE,
          error |-> "financial extraction failed: " \o e.msg]

\* the except clauses of extract_financial_from_document
document_on_exception(e) ==
    IF e.type \in {"DARTAPIException", "LLMException"}
    THEN [kind |-> "return", success |-> FALSE, error |-> e.msg]
    ELSE [kind |-> "return", success |-> FALSE,
          error |-> "financial extraction failed: " \o e.msg]

\* the entry point's reaction to an exception of one of its stages
OnException(e) ==
    IF path = "html" THEN unlisted_on_exception(e) ELSE document_on_exception(e)

\* the finally block: os.remove(path) if os.path.exists(path)
Cleanup(f) == "absent"

\* DARTRepository.download_document / download_document_pdf: state of the
\* file after the call, by where the download failed
\* the rcept_no argument of extract_financial_from_document
DocumentRcept == "R1"

DownloadOutcomes == {"ok", "fail_before_write", "fail_while_writing", "fail_after_write"}

FileAfterDownload(f, res) ==
    CASE res = "fail_before_write" -> f
      [] res = "fail_while_writing" -> "partial"
      [] OTHER -> "complete"

\* UnlistedFinancialService.get_unlisted_financial_data is called
StartUnlisted ==
    /\ ppc = "idle"
    /\ path' = "html"
    /\ ppc' = "search"
    /\ UNCHANGED <<upstage, reports, selected, file, stages, failed, outcome>>
    /\ UNCHANGED <<downloaded, calcVars, valVars, cmpVars, dirVars, finVars, jsonVars, raceVars>>

\* DocumentFinancialService.extract_financial_from_document is called on a
\* service built with (u) or without an extraction provider
StartDocument(u) ==
    /\ ppc = "idle"
    /\ path' = "pdf"
    /\ upstage' = u
    /\ ppc' = "download"
    /\ UNCHANGED <<reports, selected, file, stages, failed, outcome>>
    /\ UNCHANGED <<downloaded, calcVars, valVars, cmpVars, dirVars, finVars, jsonVars, raceVars>>

\* step 1: search_report_documents returns; no report ends the attempt
SearchDocuments(ds) ==
    /\ ppc = "search"
    /\ reports' = search_report_documents(ds)
    /\ stages' = Append(stages, "SearchDocuments")
    /\ IF reports' = <<>>
       THEN /\ failed' = <<"no_report">>
            /\ outcome' = <<[kind |-> "return", items |-> <<>>]>>
            /\ ppc' = "done"
       ELSE /\ ppc' = "select"
            /\ UNCHANGED <<failed, outcome>>
    /\ UNCHANGED <<path, upstage, selected, file>>
    /\ UNCHANGED <<downloaded, calcVars, valVars, cmpVars, dirVars, finVars, jsonVars, raceVars>>

\* step 1: search_report_documents raises
SearchFails(detail) ==
    /\ ppc = "search"
    /\ stages' = Append(stages, "SearchDocuments")
    /\ failed' = <<"search">>
    /\ outcome' = <<OnException(DARTAPIException("report search failed: " \o detail))>>
    /\ ppc' = "done"
    /\ UNCHANGED <<path, upstage, reports, selected, file>>
    /\ UNCHANGED <<downloaded, calcVars, valVars, cmpVars, dirVars, finVars, jsonVars, raceVars>>

\* step 2: audit report first, else business report
SelectReport ==
    /\ ppc = "select"
    /\ stages' = Append(stages, "SelectReport")
    /\ selected' = select_report(reports)
    /\ IF selected' = <<>>
       THEN /\ failed' = <<"select">>
            /\ outcome' = <<OnException(DARTAPIException("no business or audit report found"))>>
            /\ ppc' = "done"
       ELSE /\ ppc' = "download"
            /\ UNCHANGED <<failed, outcome>>
    /\ UNCHANGED <<path, upstage, reports, file>>
    /\ UNCHANGED <<downloaded, calcVars, valVars, cmpVars, dirVars, finVars, jsonVars, raceVars>>

\* step 3: download_document / download_document_pdf, called before the
\* try block that owns the cleanup
DownloadDocument(res, detail) ==
    /\ ppc = "download"
    /\ stages' = Append(stages, "DownloadDocument")
    /\ file' = FileAfterDownload(file, res)
    /\ downloaded' = <<IF path = "html" THEN selected[1].rcept_no ELSE DocumentRcept>>
    /\ IF res = "ok"
       THEN /\ ppc' = IF path = "html" THEN "extract" ELSE "parse"
            /\ UNCHANGED <<failed, outcome>>
       ELSE /\ failed' = <<"download">>
            /\ outcome' = <<OnException(DARTAPIException("document download failed: " \o detail))>>
            /\ ppc' = "done"
    /\ UNCHANGED <<path, upstage, reports, selected>>
    /\ UNCHANGED <<calcVars, valVars, cmpVars, dirVars, finVars, jsonVars, raceVars>>

\* step 4 (html): read the file and _extract_financial_tables
ExtractTables(res) ==
    /\ ppc = "extract"
    /\ stages' = IF res = "tables" THEN Append(stages, "ExtractTables")
                 ELSE stages \o <<"ExtractTables", "Cleanup">>
    /\ IF res = "tables"
       THEN /\ ppc' = "llm"
            /\ UNCHANGED <<file, failed, outcome>>
       ELSE /\ file' = Cleanup(file)
            /\ failed' = <<"extract">>
            /\ outcome' = <<OnException(
                  IF res = "no_tables"
                  THEN DARTAPIException("no financial statements found in the document")
                  ELSE OtherException("'euc_kr' codec can't decode byte"))>>
            /\ ppc' = "done"
    /\ UNCHANGED <<path, upstage, reports, selected>>
    /\ UNCHANGED <<downloaded, calcVars, valVars, cmpVars, dirVars, finVars, jsonVars, raceVars>>

\* step 2 (pdf): the provider check and UpstageProvider.parse_document
ParseDocument(res, detail) ==
    /\ ppc = "parse"
    /\ IF ~upstage
       THEN /\ file' = Cleanup(file)
            /\ failed' = <<"provider">>
            /\ outcome' = <<[kind |-> "return", success |-> FALSE,
                            error |-> "Upstage API key is not configured"]>>
            /\ ppc' = "done"
            /\ stages' = Append(stages, "Cleanup")
       ELSE /\ stages' = IF res = "ok" THEN Append(stages, "ExtractTables")
                         ELSE stages \o <<"ExtractTables", "Cleanup">>
            /\ IF res = "ok"
               THEN /\ ppc' = "llm"
                    /\ UNCHANGED <<file, failed, outcome>>
               ELSE /\ file' = Cleanup(file)
                    /\ failed' = <<"parse">>
                    /\ outcome' = <<OnException(LLMException("document parse failed: " \o detail))>>
                    /\ ppc' = "done"
    /\ UNCHANGED <<path, upstage, reports, selected>>
    /\ UNCHANGED <<downloaded, calcVars, valVars, cmpVars, dirVars, finVars, jsonVars, raceVars>>

\* what the external extraction call gives back
ExtractionOutcomes == {"items", "no_items", "not_json", "http_error"}

\* an extraction step that calls the capability again after a first response
\* that is not JSON
ExternalExtraction_retry(res) ==
    /\ ppc = "llm"
    /\ IF res = "not_json" /\ \A i \in DOMAIN stages : stages[i] # "ExternalExtraction"
       THEN /\ stages' = Append(stages, "ExternalExtraction")
            /\ UNCHANGED <<ppc, file, failed, outcome>>
       ELSE /\ stages' = IF res \in {"items", "no_items"}
                         THEN Append(stages, "ExternalExtraction")
                         ELSE stages \o <<"ExternalExtraction", "Cleanup">>
            /\ IF res \in {"items", "no_items"}
               THEN /\ ppc' = IF res = "items" THEN "convert" ELSE "convert_empty"
                    /\ UNCHANGED <<file, failed, outcome>>
               ELSE /\ file' = Cleanup(file)
                    /\ failed' = <<"llm">>
                    /\ outcome' = <<OnException(
                          IF res = "not_json"
                          THEN LLMException("cannot parse the financial extraction result")
                          ELSE LLMException("financial extraction failed: HTTP 500"))>>
                    /\ ppc' = "done"
    /\ UNCHANGED <<path, upstage, reports, selected>>
    /\ UNCHANGED <<downloaded, calcVars, valVars, cmpVars, dirVars, finVars, jsonVars, raceVars>>

\* step 5: extract_financial_from_html_tables / extract_financial_from_parsed_doc
ExternalExtraction(res) ==
    /\ ppc = "llm"
    /\ stages' = IF res \in {"items", "no_items"} THEN Append(stages, "ExternalExtraction")
                 ELSE stages \o <<"ExternalExtraction", "Cleanup">>
    /\ IF res \in {"items", "no_items"}
       THEN /\ ppc' = IF res = "items" THEN "convert" ELSE "convert_empty"
            /\ UNCHANGED <<file, failed, outcome>>
       ELSE /\ file' = Cleanup(file)
            /\ failed' = <<"llm">>
            /\ outcome' = <<OnException(
                  IF res = "not_json"
                  THEN LLMException("cannot parse the financial extraction result")
                  ELSE LLMException("financial extraction failed: HTTP 500"))>>
            /\ ppc' = "done"
    /\ UNCHANGED <<path, upstage, reports, selected>>
    /\ UNCHANGED <<downloaded, calcVars, valVars, cmpVars, dirVars, finVars, jsonVars, raceVars>>

\* account_mapping of both converters: account_nm -> account_id
account_mapping ==
    [nm \in CanonicalLabels |->
        CASE nm = "TotalAssets" -> "ifrs-full_Assets"
          [] nm = "TotalLiabilities" -> "ifrs-full_Liabilities"
          [] nm = "TotalEquity" -> "ifrs-full_Equity"
          [] nm = "Revenue" -> "ifrs-full_Revenue"
          [] nm = "OperatingIncome" -> "dart_OperatingIncomeLoss"
          [] OTHER -> "ifrs-full_ProfitLoss"]

\* one standard_item of the converters: the fields the later steps read
StandardItem(item, bsns_year) ==
    LET account_nm == StrGet(item, "account_nm")
        current_year == DigitsVal(bsns_year)
        amount(key) == IF key \in DOMAIN item THEN <<item[key]>> ELSE <<"0">>
    IN [account_id |-> IF account_nm \in DOMAIN account_mapping
                       THEN account_mapping[account_nm] ELSE "",
        account_nm |-> account_nm,
        bsns_year |-> bsns_year,
        thstrm_dt |-> NatToStr(current_year) \o "1231",
        thstrm_amount |-> amount("thstrm_amount"),
        frmtrm_dt |-> NatToStr(current_year - 1) \o "1231",
        frmtrm_amount |-> amount("frmtrm_amount"),
        bfefrmtrm_dt |-> NatToStr(current_year - 2) \o "1231",
        bfefrmtrm_amount |-> amount("bfefrmtrm_amount")]

\* UnlistedFinancialService._convert_to_standard_format(financial_data, bsns_year)
_convert_to_standard_format(financial_data, bsns_year) ==
    LET items == IF "items" \in DOMAIN financial_data THEN financial_data.items ELSE <<>>
    IN [i \in DOMAIN items |-> StandardItem(items[i], bsns_year)]

\* re.search(r'(\d{4})', report_nm): the first four digits in a row, or "2023"
RECURSIVE YearOfReport(_, _)
YearOfReport(report_nm, i) ==
    IF i + 3 > Len(report_nm) THEN "2023"
    ELSE IF AllDigits(SubSeq(report_nm, i, i + 3)) THEN SubSeq(report_nm, i, i + 3)
    ELSE YearOfReport(report_nm, i + 1)

\* DocumentFinancialService._convert_to_standard_format
doc_convert_to_standard_format(financial_data, report_nm) ==
    LET items == IF "items" \in DOMAIN financial_data THEN financial_data.items ELSE <<>>
        result_items ==
            [i \in DOMAIN items |-> StandardItem(items[i], YearOfReport(report_nm, 1))]
    IN [items |-> result_items, ratios |-> doc_calc_ratios(result_items)]

\* the JSON object of the extraction: with an items array, or without one
FinancialData(with_items) ==
    IF with_items
    THEN [items |->
            << [account_nm |-> "Revenue", thstrm_amount |-> "1000000",
                frmtrm_amount |-> "800000", bfefrmtrm_amount |-> "600000"],
               [account_nm |-> "NetIncome", thstrm_amount |-> "100000",
                frmtrm_amount |-> "1000"],
               [account_nm |-> "TotalEquity", thstrm_amount |-> "800000",
                frmtrm_amount |-> "600000", bfefrmtrm_amount |-> "0"] >>]
    ELSE [message |-> "no financial statements"]

\* bsns_year and report_nm of the attempt
AttemptYear == "2024"
AttemptReportName == "audit report (2024.12)"

\* steps 6 and 7: _convert_to_standard_format, then the finally block
ConvertToStandardFormat(res) ==
    /\ ppc \in {"convert", "convert_empty"}
    /\ stages' = stages \o <<"ConvertToStandardFormat", "Cleanup">>
    /\ file' = Cleanup(file)
    /\ ppc' = "done"
    /\ IF res = "ok"
       THEN /\ outcome' =
                 LET financial_data == FinancialData(ppc = "convert")
                 IN IF path = "html"
                    THEN <<[kind |-> "return",
                            items |-> _convert_to_standard_format(financial_data,
                                                                  AttemptYear)]>>
                    ELSE LET result == doc_convert_to_standard_format(financial_data,
                                                                      AttemptReportName)
                         IN <<[kind |-> "return", success |-> TRUE, error |-> "",
                               items |-> result.items, ratios |-> result.ratios]>>
            /\ UNCHANGED failed
       ELSE /\ failed' = <<"convert">>
            /\ outcome' = <<OnException(OtherException("'str' object has no attribute 'get'"))>>
    /\ UNCHANGED <<path, upstage, reports, selected>>
    /\ UNCHANGED <<downloaded, calcVars, valVars, cmpVars, dirVars, finVars, jsonVars, raceVars>>

NextPipe ==
    \/ StartUnlisted
    \/ \E u \in BOOLEAN : StartDocument(u)
    \/ \E ds \in DisclosureLists : SearchDocuments(ds)
    \/ \E detail \in Details : SearchFails(detail)
    \/ SelectReport
    \/ \E res \in DownloadOutcomes, detail \in Details : DownloadDocument(res, detail)
    \/ \E res \in {"tables", "no_tables", "decode_error"} : ExtractTables(res)
    \/ \E res \in {"ok", "fails"}, detail \in Details : ParseDocument(res, detail)
    \/ \E res \in ExtractionOutcomes : ExternalExtraction(res)
    \/ \E res \in {"ok", "raises"} : ConvertToStandardFormat(res)

SpecPipe == Init /\ [][NextPipe]_vars

(***************************************************************************)
(* Multi-company comparison                                                *)
(* A Python dict is the sequence of its [k, v] entries in insertion order. *)
(***************************************************************************)
MaxCompanies == 2  \* company codes in one comparison request

DictKeys(d) == {d[i].k : i \in DOMAIN d}

\* d[key]
DictGet(d, key) == d[CHOOSE i \in DOMAIN d : d[i].k = key].v

\* d[key] = value: a new key goes last, a known key keeps its place
DictSet(d, key, value) ==
    IF key \in DictKeys(d)
    THEN [i \in DOMAIN d |-> IF d[i].k = key THEN [k |-> key, v |-> value] ELSE d[i]]
    ELSE Append(d, [k |-> key, v |-> value])

\* FinancialService.prepare_comparison_data
prepare_comparison_data(cfd) ==
    [i \in DOMAIN cfd |->
        LET prepared == prepare_data(cfd[i].v)
        IN [k |-> cfd[i].k,
            v |-> [prepared_data |-> prepared, ratios |-> calculate_ratios(prepared)]]]

\* first loop of format_comparison_by_year: thstrm_dt[:4] of every item whose
\* thstrm_dt has at least four characters
AllYears(ccd) ==
    UNION { { SubSeq(ccd[i].v.prepared_data[j].thstrm_dt, 1, 4) :
                j \in { n \in DOMAIN ccd[i].v.prepared_data :
                          Len(ccd[i].v.prepared_data[n].thstrm_dt) >= 4 } } :
            i \in DOMAIN ccd }

\* sorted(all_years, reverse=True); the years are digit strings of one length,
\* whose string order is their numeric order
RECURSIVE SortedDesc(_)
RECURSIVE SortedDesc_ascending(_)
\* the years in ascending order
SortedDesc_ascending(S) ==
    IF S = {} THEN <<>>
    ELSE LET m == CHOOSE y \in S : \A z \in S : DigitsVal(y) <= DigitsVal(z)
         IN <<m>> \o SortedDesc_ascending(S \ {m})

SortedDesc(S) ==
    IF S = {} THEN <<>>
    ELSE LET m == CHOOSE y \in S : \A z \in S : DigitsVal(z) <= DigitsVal(y)
         IN <<m>> \o SortedDesc(S \ {m})

\* company_info.get(corp_code, {}).get(field, default)
InfoGet(info, corp_code, field, default) ==
    IF corp_code \in DictKeys(info) /\ field \in DOMAIN DictGet(info, corp_code)
    THEN DictGet(info, corp_code)[field]
    ELSE default

\* entries of one year that leave out the companies without an item of the year
YearEntries_onlyPresent(ccd, info, year) ==
    LET has(i) == \E j \in DOMAIN ccd[i].v.prepared_data :
                      /\ Len(ccd[i].v.prepared_data[j].thstrm_dt) >= 4
                      /\ SubSeq(ccd[i].v.prepared_data[j].thstrm_dt, 1, 4) = year
        all == [i \in DOMAIN ccd |->
                  [corp_code |-> ccd[i].k,
                   corp_name |-> InfoGet(info, ccd[i].k, "corp_name", ccd[i].k),
                   stock_code |-> InfoGet(info, ccd[i].k, "stock_code", "N/A"),
                   financial_data |-> ccd[i].v.prepared_data,
                   ratios |-> ccd[i].v.ratios]]
    IN SelectSeq(all, LAMBDA e : \E i \in DOMAIN ccd : ccd[i].k = e.corp_code /\ has(i))

\* inner loop of format_comparison_by_year: the entries of one year
YearEntries(ccd, info, year) ==
    [i \in DOMAIN ccd |->
        [corp_code |-> ccd[i].k,
         corp_name |-> InfoGet(info, ccd[i].k, "corp_name", ccd[i].k),
         stock_code |-> InfoGet(info, ccd[i].k, "stock_code", "N/A"),
         financial_data |-> ccd[i].v.prepared_data,
         ratios |-> ccd[i].v.ratios]]

\* FinancialService.format_comparison_by_year
format_comparison_by_year(ccd, info) ==
    LET years == SortedDesc(AllYears(ccd))
    IN [n \in DOMAIN years |-> [k |-> years[n], v |-> YearEntries(ccd, info, years[n])]]

(***************************************************************************)
(* get_multiple_companies_comparison                                       *)
(***************************************************************************)
BsnsYear == 2024   \* request.bsns_year

\* years of the route: bsns_year, bsns_year - 1, bsns_year - 2
Years == <<NatToStr(BsnsYear), NatToStr(BsnsYear - 1), NatToStr(BsnsYear - 2)>>

CorpCodes == { "0000000" \o NatToStr(i) : i \in 1..MaxCompanies }

\* request.corp_codes: the first n codes for n in 1..MaxCompanies, one list
\* that names a company twice, and one list in descending code order
CodeLists ==
    { [i \in 1..n |-> "0000000" \o NatToStr(i)] : n \in 1..MaxCompanies }
        \cup { <<"00000001", "00000001">>, <<"00000002", "00000001">> }

\* the company directory entry of a code
Company(code) ==
    [corp_code |-> code, corp_name |-> "Corp " \o code, stock_code |-> "00" \o code]

\* what dart_service.get_financial_data gives for one company and year
FetchOutcomes == {"items", "undated", "empty", "raises"}

YearAmounts(year) ==
    CASE year = Years[1] -> << <<"1,000,000">>, <<"800,000">>, <<"600,000">> >>
      [] year = Years[2] -> << <<"800,000">>, <<"600,000">>, <<"100,000">> >>
      [] OTHER -> << <<"600,000">>, <<"100,000">>, <<"0">> >>

\* result['items'] of a fetch: the items DARTService normalized for the year
FetchedItems(year, res) ==
    CASE res = "items" ->
            _prepare_data(<<
               SetField(Record("ifrs-full_Revenue", "Sales", YearAmounts(year)),
                        "thstrm_dt", year \o "1231"),
               SetField(Record("dart_OperatingIncomeLoss", "OperatingIncome",
                               << <<"100,000">>, <<"1,000">>, <<"-5">> >>),
                        "thstrm_dt", year \o "1231") >>)
      [] res = "undated" ->
            _prepare_data(<<
               SetField(Record("ifrs-full_Assets", "TotalAssets", YearAmounts(year)),
                        "thstrm_dt", "") >>)
      [] OTHER -> <<>>

\* the request arrives; fewer than 2 codes is answered with 400
ComparisonRequest(codes) ==
    /\ request = <<>>
    /\ request' = <<codes>>
    /\ IF Len(codes) < 2
       THEN /\ response' = <<[status |-> 400]>>
            /\ UNCHANGED ci
       ELSE /\ ci' = 1
            /\ UNCHANGED response
    /\ UNCHANGED <<yi, all_financial_data, company_info, companies_financial_data,
                   companies_comparison_data>>
    /\ UNCHANGED <<calcVars, valVars, pipeVars, dirVars, finVars, jsonVars, raceVars>>

\* dart_service.get_company_by_code(corp_code): a failure is answered with 500
LookupCompany(found) ==
    /\ request # <<>>
    /\ response = <<>>
    /\ ci \in DOMAIN request[1]
    /\ yi = 0
    /\ IF found
       THEN /\ company_info' = DictSet(company_info, request[1][ci], Company(request[1][ci]))
            /\ all_financial_data' = <<>>
            /\ yi' = 1
            /\ UNCHANGED response
       ELSE /\ response' = <<[status |-> 500]>>
            /\ UNCHANGED <<company_info, all_financial_data, yi>>
    /\ UNCHANGED <<request, ci, companies_financial_data, companies_comparison_data>>
    /\ UNCHANGED <<calcVars, valVars, pipeVars, dirVars, finVars, jsonVars, raceVars>>

\* one turn of the year loop; after the third year the company's list is
\* stored and the next company starts
FetchYear(res) ==
    /\ request # <<>>
    /\ response = <<>>
    /\ ci \in DOMAIN request[1]
    /\ yi \in DOMAIN Years
    /\ all_financial_data' = all_financial_data \o FetchedItems(Years[yi], res)
    /\ IF yi < Len(Years)
       THEN /\ yi' = yi + 1
            /\ UNCHANGED <<ci, companies_financial_data>>
       ELSE /\ companies_financial_data' =
                  DictSet(companies_financial_data, request[1][ci], all_financial_data')
            /\ ci' = ci + 1
            /\ yi' = 0
    /\ UNCHANGED <<request, company_info, companies_comparison_data, response>>
    /\ UNCHANGED <<calcVars, valVars, pipeVars, dirVars, finVars, jsonVars, raceVars>>

\* step 2 of the route: prepare_comparison_data
PrepareComparisonData ==
    /\ request # <<>>
    /\ response = <<>>
    /\ ci = Len(request[1]) + 1
    /\ companies_comparison_data = <<>>
    /\ companies_comparison_data' = <<prepare_comparison_data(companies_financial_data)>>
    /\ UNCHANGED <<request, ci, yi, all_financial_data, company_info,
                   companies_financial_data, response>>
    /\ UNCHANGED <<calcVars, valVars, pipeVars, dirVars, finVars, jsonVars, raceVars>>

\* step 3 of the route: format_comparison_by_year and the answer
FormatComparisonByYear ==
    /\ companies_comparison_data # <<>>
    /\ response = <<>>
    /\ response' = <<[status |-> 200, success |-> TRUE,
                      comparison_data |->
                          format_comparison_by_year(companies_comparison_data[1],
                                                    company_info)]>>
    /\ UNCHANGED <<request, ci, yi, all_financial_data, company_info,
                   companies_financial_data, companies_comparison_data>>
    /\ UNCHANGED <<calcVars, valVars, pipeVars, dirVars, finVars, jsonVars, raceVars>>

NextCmp ==
    \/ \E codes \in CodeLists : ComparisonRequest(codes)
    \/ \E found \in BOOLEAN : LookupCompany(found)
    \/ \E res \in FetchOutcomes : FetchYear(res)
    \/ PrepareComparisonData
    \/ FormatComparisonByYear

SpecCmp == Init /\ [][NextCmp]_vars

(***************************************************************************)
(* The calculators on lists with several records of one category: the      *)
(* ratio calculators and the valuation calculators on one list, or the     *)
(* comparison route with its three yearly fetches per company              *)
(***************************************************************************)
\* calculate_ratios / _calc_ratios on the list
RatioStep ==
    /\ stock_info = <<>>
    /\ request = <<>>
    /\ (CalculateRatios \/ DartCalcRatios)

\* the list is received and normalized, the stock info arrives, and one of
\* the valuation calculators runs
ValuationStep ==
    /\ ratios = <<>>
    /\ request = <<>>
    /\ NextVal

\* a step of get_multiple_companies_comparison
ComparisonStep ==
    /\ data = <<>>
    /\ runs = 0
    /\ stock_info = <<>>
    /\ NextCmp

NextLast ==
    \/ RatioStep
    \/ ValuationStep
    \/ ComparisonStep

SpecLast == Init /\ [][NextLast]_vars

(***************************************************************************)
(* DARTService: the company-list cache and get_financial_data              *)
(***************************************************************************)
MaxServices == 2   \* requests, each with the DARTService its dependency builds
MaxAccesses == 3   \* get_corp_list calls in the process

\* what DARTRepository.download_corp_codes can give: the listing with a listed
\* and an unlisted company, an empty listing, or a DARTAPIException
CorpListing ==
    << [corp_code |-> "00000001", corp_name |-> "Corp 00000001", stock_code |-> "005930"],
       [corp_code |-> "00000002", corp_name |-> "Corp 00000002", stock_code |-> "N/A"] >>

DirectoryDownloads == {"listing", "empty", "raises"}

download_corp_codes(dl) == IF dl = "listing" THEN CorpListing ELSE <<>>

\* DARTService.__init__: the cache is None; the unlisted service exists when
\* an extraction key is configured
DARTService(key_configured) ==
    [_corp_list_cache |-> <<>>, unlisted_service |-> key_configured]

\* the condition of get_corp_list under which it downloads
NeedsDownload(svc, force_refresh) == svc._corp_list_cache = <<>> \/ force_refresh

\* (variant for comparison: a failed download clears the cache)
AfterGetCorpList_clearOnFailure(svc, force_refresh, dl) ==
    IF NeedsDownload(svc, force_refresh)
    THEN [svc EXCEPT !._corp_list_cache =
              IF dl = "raises" THEN <<>> ELSE <<download_corp_codes(dl)>>]
    ELSE svc

\* the service after get_corp_list(force_refresh) when the download gives dl
AfterGetCorpList(svc, force_refresh, dl) ==
    IF NeedsDownload(svc, force_refresh) /\ dl # "raises"
    THEN [svc EXCEPT !._corp_list_cache = <<download_corp_codes(dl)>>]
    ELSE svc

\* what the get_corp_list call did: how many calls came before it, whether a
\* service of the process held a list before it, the cache of its own service
\* before it, whether it downloaded, whether the DARTAPIException of the
\* download left the call, and the list it returned (<<>> when it raised)
AccessRecord(s, force_refresh, dl) ==
    [service |-> s,
     force_refresh |-> force_refresh,
     prior |-> accesses,
     populated |-> \E t \in DOMAIN services : services[t]._corp_list_cache # <<>>,
     before |-> services[s]._corp_list_cache,
     downloaded |-> NeedsDownload(services[s], force_refresh),
     raised |-> NeedsDownload(services[s], force_refresh) /\ dl = "raises",
     returned |-> IF NeedsDownload(services[s], force_refresh) /\ dl = "raises"
                  THEN <<>>
                  ELSE AfterGetCorpList(services[s], force_refresh, dl)._corp_list_cache]

\* a request arrives: get_dart_service builds a DARTService for it
NewService(key_configured) ==
    /\ Len(services) < MaxServices
    /\ services' = Append(services, DARTService(key_configured))
    /\ UNCHANGED <<accesses, last_access, finVars, jsonVars, raceVars>>
    /\ UNCHANGED <<calcVars, valVars, pipeVars, cmpVars>>

\* DARTService.get_corp_list(force_refresh) on the service of request s
GetCorpList(s, force_refresh, dl) ==
    /\ s \in DOMAIN services
    /\ accesses < MaxAccesses
    /\ services' = [services EXCEPT ![s] = AfterGetCorpList(services[s], force_refresh, dl)]
    /\ last_access' = <<AccessRecord(s, force_refresh, dl)>>
    /\ accesses' = accesses + 1
    /\ UNCHANGED <<finVars, jsonVars, raceVars>>
    /\ UNCHANGED <<calcVars, valVars, pipeVars, cmpVars>>

NextDir ==
    \/ \E k \in BOOLEAN : NewService(k)
    \/ \E s \in 1..MaxServices, f \in BOOLEAN, dl \in DirectoryDownloads :
          GetCorpList(s, f, dl)

SpecDir == Init /\ [][NextDir]_vars

\* corp codes asked for: the listed one, the unlisted one, an unknown one
FinCodes == {"00000001", "00000002", "00000009"}

\* the rows DARTRepository.get_financial_data returns for a listed company
ListedRows ==
    << Record("ifrs-full_Revenue", "Sales",
              << <<"1,000,000">>, <<"800,000">>, <<"600,000">> >>),
       Record("ifrs-full_ProfitLoss", "NetIncome",
              << <<"100,000">>, <<"1,000">>, <<"-5">> >>) >>

\* the result dict of get_financial_data; error is <<>> when the key is absent
FinResult(company, is_listed, items, result_ratios, error) ==
    [kind |-> "return", corp_code |-> company.corp_code,
     stock_code |-> company.stock_code, is_listed |-> is_listed,
     items |-> items, ratios |-> result_ratios, error |-> error]

FinRaised(type, msg) == [kind |-> "raise", type |-> type, msg |-> msg]

\* a classification that takes every company with a stock_code for listed
is_listed_anyCode(company) == company.stock_code # ""

\* is_listed = company['stock_code'] != 'N/A'
is_listed(company) == company.stock_code # "N/A"

\* DARTService.get_financial_data(corp_code, ...) is called on the service of
\* request s
FinStart(s, corp_code) ==
    /\ fpc = "idle"
    /\ s \in DOMAIN services
    /\ accesses < MaxAccesses
    /\ fin_req' = <<[service |-> s, corp_code |-> corp_code, company |-> <<>>]>>
    /\ fpc' = "lookup"
    /\ UNCHANGED <<fin_calls, fin_result, dirVars>>
    /\ UNCHANGED <<calcVars, valVars, pipeVars, cmpVars, jsonVars, raceVars>>

\* get_company_by_code: get_corp_list(), then the search; both outside any
\* try block, then the classification by stock_code
FinLookup(dl) ==
    /\ fpc = "lookup"
    /\ LET s == fin_req[1].service
           acc == AccessRecord(s, FALSE, dl)
           found == IF acc.returned = <<>> THEN {}
                    ELSE { i \in DOMAIN acc.returned[1] :
                             acc.returned[1][i].corp_code = fin_req[1].corp_code }
       IN /\ services' = [services EXCEPT ![s] = AfterGetCorpList(services[s], FALSE, dl)]
          /\ last_access' = <<acc>>
          /\ accesses' = accesses + 1
          /\ fin_calls' = Append(fin_calls, "get_company_by_code")
          /\ IF acc.returned = <<>>
             THEN /\ fin_result' = <<FinRaised("DARTAPIException",
                                               "company code download failed")>>
                  /\ fpc' = "done"
                  /\ UNCHANGED fin_req
             ELSE IF found = {}
             THEN /\ fin_result' = <<FinRaised("CompanyNotFoundException",
                                    "company not found: " \o fin_req[1].corp_code)>>
                  /\ fpc' = "done"
                  /\ UNCHANGED fin_req
             ELSE LET company == acc.returned[1][CHOOSE i \in found :
                                                     \A j \in found : i <= j]
                  IN /\ fin_req' = <<[fin_req[1] EXCEPT !.company = <<company>>]>>
                     /\ IF is_listed(company)
                        THEN fpc' = "listed" /\ UNCHANGED fin_result
                        ELSE IF ~services[s].unlisted_service
                        THEN /\ fin_result' =
                                  <<FinResult(company, FALSE, <<>>, <<>>,
                                              <<"Upstage API key is not configured">>)>>
                             /\ fpc' = "done"
                        ELSE fpc' = "call_unlisted" /\ UNCHANGED fin_result
    /\ UNCHANGED <<calcVars, valVars, pipeVars, cmpVars, jsonVars, raceVars>>

\* listed company: dart_repo.get_financial_data, _prepare_data, _calc_ratios
FinListedFetch(res) ==
    /\ fpc = "listed"
    /\ fin_calls' = Append(fin_calls, "dart_repo.get_financial_data")
    /\ fpc' = "done"
    /\ fin_result' =
          CASE res = "raises" ->
                 <<FinRaised("DARTAPIException", "financial data lookup failed")>>
            [] res = "none" ->
                 <<FinResult(fin_req[1].company[1], TRUE, <<>>, <<>>, <<>>)>>
            [] OTHER ->
                 LET processed == _prepare_data(ListedRows)
                 IN <<FinResult(fin_req[1].company[1], TRUE, processed,
                                <<_calc_ratios(processed)>>, <<>>)>>
    /\ UNCHANGED <<fin_req, dirVars>>
    /\ UNCHANGED <<calcVars, valVars, pipeVars, cmpVars, jsonVars, raceVars>>

\* unlisted company: get_unlisted_financial_data is awaited inside the try
FinCallUnlisted ==
    /\ fpc = "call_unlisted"
    /\ ppc = "idle"
    /\ path' = "html"
    /\ ppc' = "search"
    /\ fpc' = "await_unlisted"
    /\ fin_calls' = Append(fin_calls, "get_unlisted_financial_data")
    /\ UNCHANGED <<upstage, reports, selected, file, stages, failed, outcome>>
    /\ UNCHANGED <<fin_req, fin_result, dirVars>>
    /\ UNCHANGED <<downloaded, calcVars, valVars, cmpVars, jsonVars, raceVars>>

\* the awaited call ended: an empty list, the items, or an exception that the
\* except clause turns into the error result
FinUnlistedReturn ==
    /\ fpc = "await_unlisted"
    /\ ppc = "done"
    /\ outcome # <<>>
    /\ fpc' = "done"
    /\ fin_result' =
          LET company == fin_req[1].company[1]
          IN IF outcome[1].kind = "raise"
             THEN <<FinResult(company, FALSE, <<>>, <<>>,
                      <<"unlisted financial data lookup failed: " \o outcome[1].msg>>)>>
             ELSE IF outcome[1].items = <<>>
             THEN <<FinResult(company, FALSE, <<>>, <<>>,
                      <<"no business or audit report found">>)>>
             ELSE LET processed == _prepare_data(outcome[1].items)
                  IN <<FinResult(company, FALSE, processed,
                                 <<_calc_ratios(processed)>>, <<>>)>>
    /\ UNCHANGED <<fin_req, fin_calls, dirVars>>
    /\ UNCHANGED <<calcVars, valVars, pipeVars, cmpVars, jsonVars, raceVars>>

NextFin ==
    \/ \E k \in BOOLEAN : NewService(k)
    \/ \E s \in 1..MaxServices, c \in FinCodes : FinStart(s, c)
    \/ \E dl \in DirectoryDownloads : FinLookup(dl)
    \/ \E res \in {"none", "items", "raises"} : FinListedFetch(res)
    \/ FinCallUnlisted
    \/ \E ds \in DisclosureLists : SearchDocuments(ds)
    \/ \E detail \in Details : SearchFails(detail)
    \/ SelectReport
    \/ \E res \in DownloadOutcomes, detail \in Details : DownloadDocument(res, detail)
    \/ \E res \in {"tables", "no_tables", "decode_error"} : ExtractTables(res)
    \/ \E res \in ExtractionOutcomes : ExternalExtraction(res)
    \/ \E res \in {"ok", "raises"} : ConvertToStandardFormat(res)
    \/ FinUnlistedReturn

SpecFin == Init /\ [][NextFin]_vars

(***************************************************************************)
(* The JSON part of the extraction capability's response                   *)
(* The content of the response is a sequence of tokens: the braces, a key  *)
(* with its colon, a number, and a word of prose.                          *)
(***************************************************************************)
MaxText == 5       \* tokens in one response content

JsonKey == "\"items\":"
Tokens == {"{", "}", JsonKey, "1", "note"}

ResultTexts == UNION { [1..n -> Tokens] : n \in 0..MaxText }

\* re.search(r'\{.*\}', result_text, re.DOTALL): <<>> when nothing matches,
\* else <<the match>>, from the first "{" to the last "}" of the text
re_search(text) ==
    LET opens == {i \in DOMAIN text : text[i] = "{"}
        closes == {i \in DOMAIN text : text[i] = "}"}
    IN IF opens = {} \/ closes = {} THEN <<>>
       ELSE LET first == CHOOSE i \in opens : \A j \in opens : i <= j
                last == CHOOSE i \in closes : \A j \in closes : j <= i
            IN IF last < first THEN <<>> ELSE <<SubSeq(text, first, last)>>

\* whether json.loads accepts the tokens: an object with no member, or with
\* one member whose value is a number or an object
RECURSIVE IsJsonObject(_)
IsJsonObject(t) ==
    /\ Len(t) >= 2
    /\ t[1] = "{"
    /\ t[Len(t)] = "}"
    /\ LET inner == SubSeq(t, 2, Len(t) - 1)
       IN \/ inner = <<>>
          \/ /\ Len(inner) >= 2
             /\ inner[1] = JsonKey
             /\ LET value == SubSeq(inner, 2, Len(inner))
                IN value = <<"1">> \/ IsJsonObject(value)

\* json.loads on accepted tokens: the dict as its [k, v] entries
RECURSIVE json_loads(_)
json_loads(t) ==
    LET inner == SubSeq(t, 2, Len(t) - 1)
    IN IF inner = <<>> THEN <<>>
       ELSE LET value == SubSeq(inner, 2, Len(inner))
            IN <<[k |-> "items",
                  v |-> IF value = <<"1">> THEN [num |-> 1]
                        ELSE [obj |-> json_loads(value)]]>>

\* the JSON part of extract_financial_from_html_tables and of
\* extract_financial_from_parsed_doc; a JSONDecodeError is caught by the
\* except Exception clause and raised again as LLMException
extract_json(text) ==
    LET json_match == re_search(text)
    IN IF json_match = <<>>
       THEN [kind |-> "raise",
             exc |-> LLMException("cannot parse the financial extraction result")]
       ELSE IF IsJsonObject(json_match[1])
            THEN [kind |-> "return", financial_data |-> json_loads(json_match[1])]
            ELSE [kind |-> "raise",
                  exc |-> LLMException("financial extraction failed: JSONDecodeError")]

\* the capability answers with a content
ReceiveContent(text) ==
    /\ result_text = <<>>
    /\ result_text' = <<text>>
    /\ UNCHANGED extraction
    /\ UNCHANGED <<calcVars, valVars, pipeVars, cmpVars, dirVars, finVars, raceVars>>

\* the extraction step looks for the JSON part and parses it
ExtractJson ==
    /\ result_text # <<>>
    /\ extraction = <<>>
    /\ extraction' = <<extract_json(result_text[1])>>
    /\ UNCHANGED result_text
    /\ UNCHANGED <<calcVars, valVars, pipeVars, cmpVars, dirVars, finVars, raceVars>>

NextJson ==
    \/ \E text \in ResultTexts : ReceiveContent(text)
    \/ ExtractJson

SpecJson == Init /\ [][NextJson]_vars

(***************************************************************************)
(* Two extraction attempts for the same document on one event loop         *)
(* The steps of an attempt between two awaited calls run without           *)
(* interruption: the search, the selection, the download and the reading   *)
(* of the file block the loop. Both attempts name the same temporary file: *)
(* <corp_code>_<bsns_year>_<rcept_no>.html or <corp_code>_<rcept_no>.pdf.  *)
(* The service holds an extraction provider and the search selected the    *)
(* same report for both. The file system is POSIX: open(path, 'wb') of an  *)
(* existing file truncates its inode, os.remove unlinks it and an open     *)
(* handle keeps reading the unlinked inode.                                *)
(***************************************************************************)
\* open(save_path, 'wb'); f.write(response.content), by where the download failed
WriteFile(f, res) ==
    IF res = "fail_before_write" THEN f
    ELSE [f EXCEPT !.exists = TRUE,
                   !.content = IF res = "fail_while_writing" THEN <<"partial">>
                               ELSE <<"complete">>,
                   !.inode = IF f.exists THEN f.inode ELSE f.inode + 1]

\* the finally block: os.remove when os.path.exists
RemoveFile(f) == [f EXCEPT !.exists = FALSE, !.content = <<>>]

\* the handles of the other attempts when the file is written or removed: a
\* handle that has not been read yet and is open on the unlinked inode keeps
\* the content the inode had
HandlesAfterRemove(handles, f) ==
    [a \in Attempts |->
        IF /\ handles[a] # <<>>
           /\ handles[a][1].open
           /\ handles[a][1].content = <<>>
           /\ handles[a][1].saved = <<>>
           /\ f.exists
           /\ handles[a][1].inode = f.inode
        THEN <<[handles[a][1] EXCEPT !.saved = f.content]>>
        ELSE handles[a]]

\* what a read through the handle gives
ReadHandle(h, f) ==
    IF h.saved # <<>> THEN h.saved
    ELSE IF f.exists /\ f.inode = h.inode THEN f.content
    ELSE <<>>

Ended(ok, cause) == [ok |-> ok, cause |-> cause]

\* two requests for the same document arrive at the HTML or the PDF entry point
RaceBegin(p) ==
    /\ tmp.path = "none"
    /\ tmp' = [tmp EXCEPT !.path = p]
    /\ UNCHANGED <<apc, aread, aout>>
    /\ UNCHANGED <<calcVars, valVars, pipeVars, cmpVars, dirVars, finVars, jsonVars>>

\* an attempt runs to its first awaited call: the download, then (html) the
\* reading of the file and the table extraction, or (pdf) the open of
\* parse_document; a failed download raises before the try block that owns
\* the cleanup, a document without tables raises inside it
AttemptDownload(a, res, tables) ==
    /\ tmp.path # "none"
    /\ apc[a] = "start"
    /\ LET written == WriteFile(tmp, res)
       IN IF res # "ok"
          THEN /\ tmp' = written
               /\ aout' = [aout EXCEPT ![a] = <<Ended(FALSE, "download")>>]
               /\ apc' = [apc EXCEPT ![a] = "done"]
               /\ UNCHANGED aread
          ELSE IF tmp.path = "html"
          THEN /\ aread' = [aread EXCEPT ![a] = <<[open |-> FALSE, inode |-> written.inode,
                                                  saved |-> <<>>,
                                                  content |-> written.content]>>]
               /\ IF tables
                  THEN /\ tmp' = written
                       /\ apc' = [apc EXCEPT ![a] = "await_llm"]
                       /\ UNCHANGED aout
                  ELSE /\ tmp' = RemoveFile(written)
                       /\ aout' = [aout EXCEPT ![a] = <<Ended(FALSE, "extract")>>]
                       /\ apc' = [apc EXCEPT ![a] = "done"]
          ELSE /\ tmp' = written
               /\ aread' = [aread EXCEPT ![a] = <<[open |-> TRUE, inode |-> written.inode,
                                                  saved |-> <<>>, content |-> <<>>]>>]
               /\ apc' = [apc EXCEPT ![a] = "await_parse"]
               /\ UNCHANGED aout
    /\ UNCHANGED <<calcVars, valVars, pipeVars, cmpVars, dirVars, finVars, jsonVars>>

\* (pdf) while parse_document is awaited the request body is read from the
\* open file
ParseUpload(a) ==
    /\ apc[a] = "await_parse"
    /\ aread[a][1].content = <<>>
    /\ ReadHandle(aread[a][1], tmp) # <<>>
    /\ aread' = [aread EXCEPT ![a] =
                    <<[aread[a][1] EXCEPT !.content = ReadHandle(aread[a][1], tmp)]>>]
    /\ UNCHANGED <<apc, tmp, aout>>
    /\ UNCHANGED <<calcVars, valVars, pipeVars, cmpVars, dirVars, finVars, jsonVars>>

\* (pdf) parse_document returns or raises; the handle is closed; a failure
\* runs the finally block
ParseReturn(a, ok) ==
    /\ apc[a] = "await_parse"
    /\ aread[a][1].content # <<>>
    /\ aread' = [(IF ok THEN aread ELSE HandlesAfterRemove(aread, tmp))
                    EXCEPT ![a] = <<[aread[a][1] EXCEPT !.open = FALSE]>>]
    /\ IF ok
       THEN /\ apc' = [apc EXCEPT ![a] = "await_llm"]
            /\ UNCHANGED <<tmp, aout>>
       ELSE /\ tmp' = RemoveFile(tmp)
            /\ aout' = [aout EXCEPT ![a] = <<Ended(FALSE, "parse")>>]
            /\ apc' = [apc EXCEPT ![a] = "done"]
    /\ UNCHANGED <<calcVars, valVars, pipeVars, cmpVars, dirVars, finVars, jsonVars>>

\* the awaited extraction returns or raises; conversion and the finally block
ExtractionReturn(a, ok) ==
    /\ apc[a] = "await_llm"
    /\ aread' = HandlesAfterRemove(aread, tmp)
    /\ tmp' = RemoveFile(tmp)
    /\ aout' = [aout EXCEPT ![a] = <<IF ok THEN Ended(TRUE, "") ELSE Ended(FALSE, "llm")>>]
    /\ apc' = [apc EXCEPT ![a] = "done"]
    /\ UNCHANGED <<calcVars, valVars, pipeVars, cmpVars, dirVars, finVars, jsonVars>>

NextRace ==
    \/ \E p \in {"html", "pdf"} : RaceBegin(p)
    \/ \E a \in Attempts, res \in DownloadOutcomes, tables \in BOOLEAN :
          AttemptDownload(a, res, tables)
    \/ \E a \in Attempts : ParseUpload(a)
    \/ \E a \in Attempts, ok \in BOOLEAN : ParseReturn(a, ok)
    \/ \E a \in Attempts, ok \in BOOLEAN : ExtractionReturn(a, ok)

SpecRace == Init /\ [][NextRace]_vars

(***************************************************************************)
(* Properties of the normalizer and the ratio calculators                  *)
(***************************************************************************)
\* the number an amount of the input stands for
AmountValue(v) ==
    CASE v = <<>> -> 0
      [] v = <<"1,000,000">> -> 1000000
      [] v = <<"800,000">> -> 800000
      [] v = <<"600,000">> -> 600000
      [] v = <<"100,000">> -> 100000
      [] v = <<"1,000">> -> 1000
      [] v = <<"-5">> -> 0 - 5
      [] OTHER -> 0

\* the records of d in category name
OfCategory(d, name) == {j \in DOMAIN d : d[j].base_display_name = name}

\* the amount the category contributes: that of its last record
CategoryAmount(d, name, p) ==
    LET S == OfCategory(d, name)
    IN IF S = {} THEN 0
       ELSE AmountValue(AmountOf(d[CHOOSE j \in S : \A k \in S : k <= j], p))

ByRatioCalculator == ratios # <<>> /\ ratios[1].by \in {"fs", "dart"}

\* C1: when the denominator category is present and its parsed amount for a
\* period is zero, FinancialService.calculate_ratios and
\* DARTService._calc_ratios give exactly 0 for that ratio and period,
\* whatever the numerator amount is.
C1_ZeroDenominatorGivesZero ==
    ByRatioCalculator =>
        \A r \in RatioNames, p \in PeriodSet :
            (/\ OfCategory(data, RatioPair(r)[2]) # {}
             /\ CategoryAmount(data, RatioPair(r)[2], p) = 0)
            => ratios[1].set[r][p] = Zero

\* a ratio was computed whose denominator is present and zero while its
\* numerator is not zero
C1_Witness ==
    /\ ByRatioCalculator
    /\ \E r \in RatioNames, p \in PeriodSet :
          /\ OfCategory(data, RatioPair(r)[2]) # {}
          /\ CategoryAmount(data, RatioPair(r)[2], p) = 0
          /\ CategoryAmount(data, RatioPair(r)[1], p) # 0
          /\ ratios[1].set[r][p] = Zero

\* C2: when no record has the denominator category as its base_display_name,
\* the ratio of every period is exactly 0, also with a non-zero numerator.
C2_AbsentDenominatorGivesZero ==
    ByRatioCalculator =>
        \A r \in RatioNames, p \in PeriodSet :
            OfCategory(data, RatioPair(r)[2]) = {} => ratios[1].set[r][p] = Zero

\* C3: after the Account Normalizer has run, no two records of the list have
\* the same display_name.
C3_DisplayNamesUnique ==
    runs > 0 =>
        \A i, j \in DOMAIN data :
            i # j => data[i].display_name # data[j].display_name

\* C8: running the Account Normalizer on its own output leaves the
\* base_display_name and the display_name of every record unchanged.
C8_NormalizerIdempotent ==
    [][(runs > 0 /\ runs' = runs + 1) =>
          /\ Len(data') = Len(data)
          /\ \A i \in DOMAIN data :
                /\ data'[i].base_display_name = data[i].base_display_name
                /\ data'[i].display_name = data[i].display_name]_vars

\* the normalizer has run twice on a list with a disambiguated category
C8_Witness ==
    /\ runs = 2
    /\ \E i \in DOMAIN data : data[i].display_name # data[i].base_display_name

\* C9: with each canonical category at most once in the list, every ratio of
\* FinancialService.calculate_ratios whose denominator amount is non-zero in
\* a period equals numerator / denominator * 100 of its fixed pair, from
\* that period's amounts, an amount being read without its thousands
\* separators and a missing or non-numeric amount being 0.
C9_RatioFormula ==
    (/\ ratios # <<>>
     /\ ratios[1].by = "fs"
     /\ \A c \in CanonicalLabels : Cardinality(OfCategory(data, c)) <= 1)
    => \A r \in RatioNames, p \in PeriodSet :
          CategoryAmount(data, RatioPair(r)[2], p) # 0
          => ratios[1].set[r][p] =
                Frac(CategoryAmount(data, RatioPair(r)[1], p) * 100,
                     CategoryAmount(data, RatioPair(r)[2], p))

\* revenue "1,000,000" and operating income "100,000" for the current period
\* give an operating margin of 10.0
C9_Witness ==
    /\ ratios # <<>>
    /\ ratios[1].by = "fs"
    /\ \E i, j \in DOMAIN data :
          /\ data[i].base_display_name = "Revenue"
          /\ data[i].thstrm_amount = <<"1,000,000">>
          /\ data[j].base_display_name = "OperatingIncome"
          /\ data[j].thstrm_amount = <<"100,000">>
    /\ ratios[1].set["OperatingMargin"]["thstrm"] = [n |-> 10, d |-> 1]

\* a value with at most two decimal places
TwoDecimals(f) == 100 % f.d = 0

\* C10: every ratio value of every RatioSet is rounded to 2 decimal places,
\* and the three calculators return the same RatioSet for the same
\* normalized items.
C10_RatiosRounded ==
    ratios # <<>> =>
        /\ \A r \in RatioNames, p \in PeriodSet : TwoDecimals(ratios[1].set[r][p])
        /\ ratios[1].set = _calc_ratios(data)
        /\ ratios[1].set = doc_calc_ratios(data)

(***************************************************************************)
(* Properties of the valuation calculators                                 *)
(***************************************************************************)
\* the stock info has the keys status, price, shares and message, and its
\* share count is a number or None
WellFormed ==
    /\ stock_info # <<>>
    /\ DOMAIN stock_info[1] = {"status", "price", "shares", "message"}

\* the calculator went on to compute: a price and a positive share count are
\* present and, for StockService, the status is neither no_data nor error
Proceeds ==
    /\ valuation # <<>>
    /\ WellFormed
    /\ stock_info[1].price \notin {<<>>, <<0>>}
    /\ stock_info[1].shares # <<>>
    /\ stock_info[1].shares[1] > 0
    /\ valuation[1].by = "stock" => stock_info[1].status \notin {"no_data", "error"}

\* price / (amount / shares) to two decimals
ExpectedMultiple(name, p) ==
    Fmt2(Frac(stock_info[1].price[1] * stock_info[1].shares[1],
              CategoryAmount(data, name, p)))

\* C4: when the valuation calculator proceeds to compute, PER is "N/A" in
\* every period whose net income is <= 0 or absent and PBR is "N/A" in every
\* period whose equity is <= 0, whatever the other periods hold; the other
\* periods carry their computed value.
C4_NonPositiveGivesNA ==
    Proceeds =>
        \A p \in PeriodSet :
            /\ CategoryAmount(data, "NetIncome", p) <= 0 => valuation[1].PER[p] = NA
            /\ CategoryAmount(data, "TotalEquity", p) <= 0 => valuation[1].PBR[p] = NA
            /\ CategoryAmount(data, "NetIncome", p) > 0
               => valuation[1].PER[p] = ExpectedMultiple("NetIncome", p)
            /\ CategoryAmount(data, "TotalEquity", p) > 0
               => valuation[1].PBR[p] = ExpectedMultiple("TotalEquity", p)

\* net income is negative in the current period and positive in the prior
\* one: PER is N/A for the first and a number for the second
C4_Witness ==
    /\ Proceeds
    /\ CategoryAmount(data, "NetIncome", "thstrm") < 0
    /\ CategoryAmount(data, "NetIncome", "frmtrm") > 0
    /\ valuation[1].PER["thstrm"] = NA
    /\ valuation[1].PER["frmtrm"] = "50000.00"

\* C11: when the price or the share count handed to a valuation calculator is
\* None or 0 (for StockService with a status of success or partial), all six
\* PER/PBR values are "N/A" and the note is a non-empty text.
C11_MissingPriceOrSharesGivesNA ==
    ( /\ valuation # <<>>
      /\ WellFormed
      /\ \/ stock_info[1].price \in {<<>>, <<0>>}
         \/ stock_info[1].shares \in {<<>>, <<0>>}
      /\ valuation[1].by = "stock" => stock_info[1].status \in {"success", "partial"} )
    => /\ valuation[1].PER = AllPeriods(NA)
       /\ valuation[1].PBR = AllPeriods(NA)
       /\ valuation[1].note # <<>>
       /\ valuation[1].note[1] # ""

\* C12: StockService.calc_per_pbr decides on the status first: no_data gives
\* six "N/A" and the unlisted-company note whatever the items are; error
\* gives the provider's message as the note and six error markers, no
\* computed number; with any other status and a usable price and share count
\* the value of a period with a positive amount is computed from the items.
C12_StatusDispatch ==
    ( /\ valuation # <<>>
      /\ valuation[1].by = "stock"
      /\ WellFormed )
    => /\ stock_info[1].status = "no_data" =>
            /\ valuation[1].PER = AllPeriods(NA)
            /\ valuation[1].PBR = AllPeriods(NA)
            /\ valuation[1].note = <<NOTE_UNLISTED>>
       /\ stock_info[1].status = "error" =>
            /\ valuation[1].PER = AllPeriods(ERR)
            /\ valuation[1].PBR = AllPeriods(ERR)
            /\ valuation[1].note = stock_info[1].message
       /\ (stock_info[1].status \notin {"no_data", "error"} /\ Proceeds) =>
            \A p \in PeriodSet :
               /\ CategoryAmount(data, "NetIncome", p) > 0
                  => valuation[1].PER[p] = ExpectedMultiple("NetIncome", p)
               /\ CategoryAmount(data, "TotalEquity", p) > 0
                  => valuation[1].PBR[p] = ExpectedMultiple("TotalEquity", p)

\* the status is error while the items hold a positive net income: the note
\* is the provider's message and no multiple is computed
C12_Witness ==
    /\ valuation # <<>>
    /\ valuation[1].by = "stock"
    /\ WellFormed
    /\ stock_info[1].status = "error"
    /\ CategoryAmount(data, "NetIncome", "thstrm") > 0
    /\ valuation[1].note = <<"lookup failed: timeout">>
    /\ valuation[1].PER["thstrm"] = ERR

\* C13: no call of a valuation calculator ends in an exception, whatever the
\* stock info and the items are; a stock info whose share count is text gives
\* six error markers and a note with the error text.
C13_NoExceptionEscapes ==
    valuation # <<>> =>
        /\ "raised" \notin DOMAIN valuation[1]
        /\ ( /\ "shares_text" \in DOMAIN stock_info[1]
             /\ "status" \in DOMAIN stock_info[1]
             /\ stock_info[1].price \notin {<<>>, <<0>>} )
           => /\ valuation[1].PER = AllPeriods(ERR)
              /\ valuation[1].PBR = AllPeriods(ERR)
              /\ valuation[1].note # <<>>

(***************************************************************************)
(* Properties of the fallback pipeline                                     *)
(***************************************************************************)
Returned == outcome # <<>>

\* C5: whatever the outcome of every stage, the temporary downloaded file
\* does not exist when the pipeline call returns or raises.
C5_TempFileRemoved == Returned => file = "absent"

\* the result object of a failure: success = false and a non-empty error
FailureResult(o) ==
    /\ o.kind = "return"
    /\ "success" \in DOMAIN o
    /\ o.success = FALSE
    /\ o.error # ""

\* C6 as stated: whenever a stage fails, both entry points return a result
\* object with success = false and a non-empty error string, and no
\* exception escapes.
C6_FailureReturnsResult ==
    (Returned /\ failed # <<>>) => FailureResult(outcome[1])

\* C6 as amended: on a stage failure extract_financial_from_document returns
\* success = false with a non-empty error and raises nothing, while
\* get_unlisted_financial_data returns an empty list when the search finds
\* no report and otherwise raises a DARTAPIException or an LLMException
\* with a non-empty message.
C6_FailureReported ==
    (Returned /\ failed # <<>>) =>
        IF path = "pdf" THEN FailureResult(outcome[1])
        ELSE IF failed = <<"no_report">>
        THEN outcome[1].kind = "return" /\ outcome[1].items = <<>>
        ELSE /\ outcome[1].kind = "raise"
             /\ outcome[1].type \in {"DARTAPIException", "LLMException"}
             /\ outcome[1].msg # ""

\* the external extraction failed on the PDF path and the caller got a
\* failure result
C6_Witness ==
    /\ path = "pdf"
    /\ failed = <<"llm">>
    /\ Returned
    /\ FailureResult(outcome[1])


(***************************************************************************)
(* Properties of the comparison                                            *)
(***************************************************************************)
\* the route answered with the comparison of at least two companies
Compared ==
    /\ response # <<>>
    /\ response[1].status = 200
    /\ Len(companies_comparison_data[1]) >= 2

\* the years of the items the comparison was computed from: the first four
\* characters of every thstrm_dt that has four characters
ItemYears ==
    { SubSeq(it.thstrm_dt, 1, 4) :
        it \in { x \in UNION { { companies_financial_data[i].v[j] :
                                   j \in DOMAIN companies_financial_data[i].v } :
                               i \in DOMAIN companies_financial_data } :
                     Len(x.thstrm_dt) >= 4 } }

\* C7: for a comparison of two or more companies, the keys of the mapping
\* format_comparison_by_year returns are exactly the years (first four
\* characters of thstrm_dt) of all items of all companies, each key once;
\* under every year there is exactly one entry per company, also for a
\* company without an item of that year, and the entry carries the company's
\* entire normalized item list and its entire ratio set.
C7_ComparisonByYear ==
    Compared =>
        LET ccd == companies_comparison_data[1]
            out == response[1].comparison_data
        IN /\ { out[n].k : n \in DOMAIN out } = ItemYears
           /\ Len(out) = Cardinality(ItemYears)
           /\ \A n \in DOMAIN out :
                /\ Len(out[n].v) = Len(ccd)
                /\ \A i \in DOMAIN ccd :
                     /\ Cardinality({ e \in DOMAIN out[n].v :
                                        out[n].v[e].corp_code = ccd[i].k }) = 1
                     /\ \A e \in DOMAIN out[n].v :
                          out[n].v[e].corp_code = ccd[i].k =>
                            /\ out[n].v[e].financial_data =
                                   prepare_data(companies_financial_data[i].v)
                            /\ out[n].v[e].ratios = ccd[i].v.ratios
                            /\ out[n].v[e].ratios =
                                   calculate_ratios(out[n].v[e].financial_data)

\* C7 witness: the first company has items of 2024, 2023 and 2022, the second
\* of 2024 and 2023 only; the mapping has the three years and the entry of the
\* second company under 2022 holds its four items.
C7_Witness ==
    /\ Compared
    /\ Len(companies_financial_data) = 2
    /\ \A i \in 1..2 : \A j \in DOMAIN companies_financial_data[i].v :
          Len(companies_financial_data[i].v[j].thstrm_dt) >= 4
    /\ { SubSeq(companies_financial_data[1].v[j].thstrm_dt, 1, 4) :
           j \in DOMAIN companies_financial_data[1].v } = {"2024", "2023", "2022"}
    /\ { SubSeq(companies_financial_data[2].v[j].thstrm_dt, 1, 4) :
           j \in DOMAIN companies_financial_data[2].v } = {"2024", "2023"}
    /\ { response[1].comparison_data[n].k : n \in DOMAIN response[1].comparison_data }
          = {"2024", "2023", "2022"}
    /\ \E n \in DOMAIN response[1].comparison_data :
         /\ response[1].comparison_data[n].k = "2022"
         /\ \E e \in DOMAIN response[1].comparison_data[n].v :
              /\ response[1].comparison_data[n].v[e].corp_code =
                     companies_financial_data[2].k
              /\ Len(response[1].comparison_data[n].v[e].financial_data) = 4


\* C14: in a comparison request with at least two codes, a failing lookup of
\* one company (directory lookup or a year's fetch) does not abort the
\* request: the answer is the comparison, and every company that was found
\* has its entry under every year of the comparison.
C14_CompanyFailureIsolated ==
    ( /\ request # <<>>
      /\ Len(request[1]) >= 2
      /\ response # <<>> )
    => /\ response[1].status = 200
       /\ \A n \in DOMAIN response[1].comparison_data :
            \A code \in DictKeys(company_info) :
               \E e \in DOMAIN response[1].comparison_data[n].v :
                  response[1].comparison_data[n].v[e].corp_code = code


(***************************************************************************)
(* Properties of the normalizer on malformed records                       *)
(***************************************************************************)
\* the record's identifier is a key of the identifier table
KnownId(r) == "account_id" \in DOMAIN r /\ r.account_id \in DOMAIN ACCOUNT_ID_MAP

\* the record's account name, empty when the record has none
NameOf(r) == IF "account_nm" \in DOMAIN r THEN r.account_nm ELSE ""

\* C15: after the normalizer has run, every record's base_display_name is
\* (1) the table's label when the identifier is a key of the table, whatever
\* the name is; (2) otherwise, also with an empty or missing identifier, the
\* net-income label when the name contains the net-income substring;
\* (3) otherwise the name verbatim; so it is a canonical label or the name.
C15_BaseNamePrecedence ==
    runs > 0 =>
        \A i \in DOMAIN data :
            /\ KnownId(data[i])
               => data[i].base_display_name = ACCOUNT_ID_MAP[data[i].account_id]
            /\ (~KnownId(data[i]) /\ Contains(NameOf(data[i]), "NetIncome"))
               => data[i].base_display_name = "NetIncome"
            /\ (~KnownId(data[i]) /\ ~Contains(NameOf(data[i]), "NetIncome"))
               => data[i].base_display_name = NameOf(data[i])
            /\ data[i].base_display_name \in CanonicalLabels \cup {NameOf(data[i])}

\* a record with the equity identifier and a name holding the net-income
\* substring is equity; a record without identifier and with such a name is
\* net income
C15_Witness ==
    /\ runs > 0
    /\ \E i \in DOMAIN data :
          /\ KnownId(data[i])
          /\ data[i].account_id = "ifrs-full_Equity"
          /\ Contains(NameOf(data[i]), "NetIncome")
          /\ data[i].base_display_name = "TotalEquity"
    /\ \E i \in DOMAIN data :
          /\ "account_id" \notin DOMAIN data[i]
          /\ data[i].base_display_name = "NetIncome"

\* C16: the normalizer and the ratio calculator return normally on every
\* record list, also with missing, empty or None identifiers, missing or None
\* names and unparsable amounts; a numerator amount that cannot be parsed
\* counts as 0, so its ratio is 0.
C16_ComputationNeverRaises ==
    /\ raised = <<>>
    /\ ByRatioCalculator =>
          \A r \in RatioNames, p \in PeriodSet :
              CategoryAmount(data, RatioPair(r)[1], p) = 0 => ratios[1].set[r][p] = Zero


(***************************************************************************)
(* Properties of the external extraction step                              *)
(***************************************************************************)
\* the attempt ran the external extraction
Extracted == \E i \in DOMAIN stages : stages[i] = "ExternalExtraction"

\* C20: when the external extraction gave a response that is not JSON or a
\* JSON object without the items array, the pipeline ends in a domain error
\* with a fixed message: an attempt that ran the extraction never returns an
\* empty item list (the value that stands for 'no report found' on the HTML
\* path, a success with no items on the PDF path), and a response that is not
\* JSON ends in the fixed parse-failure message.
C20_MalformedExtractionIsError ==
    (Returned /\ Extracted) =>
        /\ (outcome[1].kind = "return" /\ "items" \in DOMAIN outcome[1])
           => outcome[1].items # <<>>
        /\ failed = <<"llm">> =>
             \/ /\ outcome[1].kind = "raise"
                /\ outcome[1].type = "LLMException"
                /\ outcome[1].msg # ""
             \/ /\ outcome[1].kind = "return"
                /\ ~outcome[1].success
                /\ outcome[1].error # ""


(***************************************************************************)
(* Properties of DARTService                                               *)
(***************************************************************************)
\* C17: the company list is cached for the life of the process: a
\* get_corp_list call downloads the directory only when it is the first of
\* the process (no list has been cached yet) or when force_refresh is true;
\* every other call returns the cached list without a download.
C17_CachePopulatedOnce ==
    last_access # <<>> =>
        (last_access[1].downloaded =>
            \/ last_access[1].force_refresh
            \/ ~last_access[1].populated)

\* C18: DARTService.get_financial_data never raises: whatever the directory,
\* the disclosure provider and the fallback pipeline do, the call returns a
\* result, and a failure of the fallback pipeline is a result with no items
\* and an error text.
C18_AlwaysStructuredResult ==
    fin_result # <<>> =>
        /\ fin_result[1].kind = "return"
        /\ (outcome # <<>> /\ outcome[1].kind = "raise")
           => (fin_result[1].items = <<>> /\ fin_result[1].error # <<>>)


(***************************************************************************)
(* Ordering of the comparison                                              *)
(***************************************************************************)
\* the codes of the request in order of first occurrence
RECURSIVE FirstOccurrences(_)
FirstOccurrences(codes) ==
    IF codes = <<>> THEN <<>>
    ELSE LET front == FirstOccurrences(SubSeq(codes, 1, Len(codes) - 1))
             last == codes[Len(codes)]
         IN IF \E i \in DOMAIN front : front[i] = last THEN front
            ELSE Append(front, last)

\* C19: the year keys of the comparison come in descending year order, and
\* under every year the entries of the companies come in the order of the
\* input company codes, the same order under every year.
C19_DeterministicOrdering ==
    Compared =>
        LET out == response[1].comparison_data
        IN /\ \A n, m \in DOMAIN out :
                n < m => DigitsVal(out[n].k) > DigitsVal(out[m].k)
           /\ \A n \in DOMAIN out :
                [e \in DOMAIN out[n].v |-> out[n].v[e].corp_code]
                    = FirstOccurrences(request[1])

\* the request names the second company before the first; the comparison has
\* the years 2024, 2023, 2022 in this order and under each the second
\* company's entry comes first
C19_Witness ==
    /\ Compared
    /\ request[1] = <<"00000002", "00000001">>
    /\ [n \in DOMAIN response[1].comparison_data |-> response[1].comparison_data[n].k]
          = <<"2024", "2023", "2022">>
    /\ \A n \in DOMAIN response[1].comparison_data :
          response[1].comparison_data[n].v[1].corp_code = "00000002"


(***************************************************************************)
(* Properties of the JSON extraction                                       *)
(***************************************************************************)
\* the well-formed JSON objects of the text, as [from, to] positions
ObjectsIn(text) ==
    { <<i, j>> \in (DOMAIN text) \X (DOMAIN text) :
        i < j /\ IsJsonObject(SubSeq(text, i, j)) }

\* the first of them: the one that starts first
FirstObject(text) ==
    LET first == CHOOSE o \in ObjectsIn(text) : \A q \in ObjectsIn(text) : o[1] <= q[1]
    IN SubSeq(text, first[1], first[2])

\* C21: whenever the content of the response holds a well-formed JSON object
\* (between any prose, which may hold braces or another object), the
\* extraction step returns the first well-formed JSON object of the content.
C21_FirstJsonObjectExtracted ==
    (extraction # <<>> /\ ObjectsIn(result_text[1]) # {}) =>
        /\ extraction[1].kind = "return"
        /\ extraction[1].financial_data = json_loads(FirstObject(result_text[1]))


(***************************************************************************)
(* Disambiguation pass of the Account Normalizer                           *)
(***************************************************************************)
\* C22: after the Account Normalizer has run, the display_name of a record is
\* its base_display_name followed by " (" + account identifier + ")" exactly
\* when more than one record of the list has that base_display_name, and is
\* the base_display_name otherwise; every member of a colliding category is
\* suffixed with its own identifier, an empty identifier giving " ()".
C22_Disambiguation ==
    runs > 0 =>
        \A i \in DOMAIN data :
            LET base == data[i].base_display_name
                suffixed == base \o " (" \o data[i].account_id \o ")"
            IN /\ Cardinality(OfCategory(data, base)) > 1
                    => data[i].display_name = suffixed
               /\ Cardinality(OfCategory(data, base)) <= 1
                    => data[i].display_name = base
               /\ data[i].display_name = suffixed
                    => Cardinality(OfCategory(data, base)) > 1

\* two records mapped to net income, one by its identifier and one by its
\* name, are both suffixed, the second with " ()"
C22_Witness ==
    /\ runs > 0
    /\ Len(data) = 2
    /\ data[1].account_id = "ifrs-full_ProfitLoss"
    /\ data[1].display_name = "NetIncome (ifrs-full_ProfitLoss)"
    /\ data[2].account_id = ""
    /\ data[2].account_nm = "NetIncome(Loss)"
    /\ data[2].display_name = "NetIncome ()"


(***************************************************************************)
(* Selection of the report                                                 *)
(***************************************************************************)
\* the positions of the audit reports among the found reports
AuditPositions == {i \in DOMAIN reports : Contains(reports[i].report_nm, "audit report")}

\* C23: when a report has been selected from the found reports, it is the
\* first audit report of the list if the list has one, and a business report
\* only if the list has no audit report; the document the download asks for
\* is the selected report.
C23_AuditReportPreferred ==
    /\ (path = "html" /\ selected # <<>>) =>
          IF AuditPositions # {}
          THEN \E i \in AuditPositions :
                  /\ \A j \in AuditPositions : i <= j
                  /\ selected[1] = reports[i]
          ELSE Contains(selected[1].report_nm, "business report")
    /\ (path = "html" /\ downloaded # <<>>) =>
          /\ selected # <<>>
          /\ downloaded[1] = selected[1].rcept_no

\* the business report comes first in the list, the audit report is selected
\* and downloaded
C23_Witness ==
    /\ path = "html"
    /\ reports = <<[report_nm |-> "business report", rcept_no |-> "R2"],
                   [report_nm |-> "audit report", rcept_no |-> "R1"]>>
    /\ selected = <<[report_nm |-> "audit report", rcept_no |-> "R1"]>>
    /\ downloaded = <<"R1">>


(***************************************************************************)
(* The reports the search hands to the pipeline                            *)
(***************************************************************************)
ExclusionWords == {"correction", "withdrawal", "cancellation"}

\* C24: every report the unlisted pipeline may select is a business report
\* or an audit report whose name holds none of the exclusion words; when the
\* search finds no report the attempt ends there, nothing is downloaded, and
\* the caller gets the 'no report found' error.
C24_SearchExcludesWithdrawn ==
    /\ \A i \in DOMAIN reports :
          /\ \E w \in {"business report", "audit report"} :
                Contains(reports[i].report_nm, w)
          /\ \A b \in ExclusionWords : ~Contains(reports[i].report_nm, b)
    /\ failed = <<"no_report">> =>
          /\ downloaded = <<>>
          /\ file = "absent"
          /\ stages = <<"SearchDocuments">>
          /\ fin_result # <<>> =>
                /\ fin_result[1].kind = "return"
                /\ fin_result[1].error = <<"no business or audit report found">>


(***************************************************************************)
(* The fallback result against the listed-company path                     *)
(***************************************************************************)
\* items and ratios are what the listed-company path gives on the converted
\* records of fiscal year `year`
ListedPathResult(items, result_ratios, year) ==
    /\ \A i \in DOMAIN items :
          /\ "base_display_name" \in DOMAIN items[i]
          /\ "display_name" \in DOMAIN items[i]
          /\ items[i].thstrm_dt = NatToStr(DigitsVal(year)) \o "1231"
          /\ items[i].frmtrm_dt = NatToStr(DigitsVal(year) - 1) \o "1231"
          /\ items[i].bfefrmtrm_dt = NatToStr(DigitsVal(year) - 2) \o "1231"
    /\ items = _prepare_data(items)
    /\ result_ratios = _calc_ratios(items)

\* C25: every successful result of the fallback pipeline, of the HTML path
\* through DARTService.get_financial_data and of the PDF path through
\* extract_financial_from_document, is the listed-company path's result on
\* the converted records: normalized items, period-end dates of the report's
\* fiscal year, and the Ratio Calculator's ratios.
C25_FallbackEqualsListedPath ==
    /\ (/\ fin_result # <<>>
        /\ fin_result[1].kind = "return"
        /\ ~fin_result[1].is_listed
        /\ fin_result[1].items # <<>>)
          => ListedPathResult(fin_result[1].items, fin_result[1].ratios[1], AttemptYear)
    /\ (/\ path = "pdf"
        /\ outcome # <<>>
        /\ outcome[1].kind = "return"
        /\ outcome[1].success)
          => ListedPathResult(outcome[1].items, outcome[1].ratios, AttemptYear)


(***************************************************************************)
(* Order of the stages of one attempt                                      *)
(***************************************************************************)
StageOrder ==
    <<"SearchDocuments", "SelectReport", "DownloadDocument", "ExtractTables",
      "ExternalExtraction", "ConvertToStandardFormat", "Cleanup">>

StagePosition(stage) == CHOOSE n \in DOMAIN StageOrder : StageOrder[n] = stage

HasRun(stage) == \E i \in DOMAIN stages : stages[i] = stage

\* C26: the stages of one attempt run in the fixed order, each at most once;
\* a document is downloaded only for a selected report; the external
\* extraction runs at most once, only after the download succeeded and the
\* table text was extracted; the conversion runs only after the external
\* extraction returned.
C26_StagesInOrder ==
    /\ \A i, j \in DOMAIN stages :
          i < j => StagePosition(stages[i]) < StagePosition(stages[j])
    /\ (path = "html" /\ HasRun("DownloadDocument")) =>
          (HasRun("SelectReport") /\ selected # <<>>)
    /\ HasRun("ExternalExtraction") =>
          /\ HasRun("DownloadDocument")
          /\ HasRun("ExtractTables")
          /\ failed \notin {<<"download">>, <<"extract">>, <<"parse">>}
    /\ HasRun("ConvertToStandardFormat") =>
          (HasRun("ExternalExtraction") /\ failed # <<"llm">>)

\* an attempt of the unlisted pipeline that ran all seven stages
C26_Witness ==
    /\ path = "html"
    /\ stages = StageOrder
    /\ outcome # <<>>
    /\ outcome[1].kind = "return"


(***************************************************************************)
(* Classification and calls of get_financial_data                          *)
(***************************************************************************)
CallCount(name) == Cardinality({i \in DOMAIN fin_calls : fin_calls[i] = name})

\* the company of the call has been found and its ticker is the sentinel
FoundUnlisted == fin_req # <<>> /\ fin_req[1].company # <<>>
                    /\ fin_req[1].company[1].stock_code = "N/A"

FoundListed == fin_req # <<>> /\ fin_req[1].company # <<>>
                  /\ fin_req[1].company[1].stock_code # "N/A"

\* C27: get_financial_data looks the company up first; a company is unlisted
\* exactly when its ticker is "N/A"; for a listed company the structured
\* disclosure API is queried and the fallback pipeline is never invoked; for
\* an unlisted company the structured disclosure API is never queried and
\* the fallback pipeline is invoked at most once, and not at all without an
\* extraction provider.
C27_ClassificationAndCalls ==
    /\ fin_calls # <<>> => fin_calls[1] = "get_company_by_code"
    /\ (fin_calls # <<>> /\ Len(fin_calls) > 1) => fin_req[1].company # <<>>
    /\ FoundListed =>
          /\ CallCount("get_unlisted_financial_data") = 0
          /\ path = "none"
          /\ fpc = "done" => CallCount("dart_repo.get_financial_data") = 1
          /\ (fin_result # <<>> /\ fin_result[1].kind = "return")
                => fin_result[1].is_listed
    /\ FoundUnlisted =>
          /\ CallCount("dart_repo.get_financial_data") = 0
          /\ CallCount("get_unlisted_financial_data") <= 1
          /\ ~services[fin_req[1].service].unlisted_service
                => (CallCount("get_unlisted_financial_data") = 0 /\ path = "none")
          /\ (fpc = "done" /\ services[fin_req[1].service].unlisted_service)
                => CallCount("get_unlisted_financial_data") = 1
          /\ fin_result # <<>> => ~fin_result[1].is_listed

\* an unlisted company went through the fallback pipeline once and the
\* structured disclosure API was not queried
C27_Witness ==
    /\ FoundUnlisted
    /\ fpc = "done"
    /\ fin_calls = <<"get_company_by_code", "get_unlisted_financial_data">>
    /\ fin_result # <<>>
    /\ fin_result[1].items # <<>>


(***************************************************************************)
(* The last record of a category                                           *)
(***************************************************************************)
\* the positions of d that hold the last record of their category
LastOfCategory(d) ==
    { j \in DOMAIN d :
        \A k \in DOMAIN d :
            k > j => Get(d[k], "base_display_name") # Get(d[j], "base_display_name") }

\* d reduced to the last record of each category, in list order
RECURSIVE Reduced(_, _)
Reduced(d, n) ==
    IF n = 0 THEN <<>>
    ELSE IF n \in LastOfCategory(d) THEN Append(Reduced(d, n - 1), d[n])
    ELSE Reduced(d, n - 1)

\* the year a record of the comparison was fetched for
FetchYearOf(item) ==
    IF item.thstrm_dt # "" THEN SubSeq(item.thstrm_dt, 1, 4)
    ELSE CHOOSE y \in {Years[n] : n \in DOMAIN Years} :
            YearAmounts(y) = <<item.thstrm_amount, item.frmtrm_amount,
                               item.bfefrmtrm_amount>>

\* C28: the ratio calculators and the valuation calculators give on a list
\* what they give on the list reduced to the last record of each category;
\* in the comparison every company's ratios are those of its reduced list,
\* and the last record of a category is the one fetched for year Y-2
\* whenever the fetch for that year returned the category.
C28_LastRecordWins ==
    /\ ByRatioCalculator =>
          ratios[1].set = IF ratios[1].by = "fs"
                          THEN calculate_ratios(Reduced(data, Len(data)))
                          ELSE _calc_ratios(Reduced(data, Len(data)))
    /\ (valuation # <<>> /\ valuation[1].by = "stock") =>
          valuation[1] = calc_per_pbr(Reduced(data, Len(data)), stock_info[1])
    /\ (valuation # <<>> /\ valuation[1].by = "fs"
            /\ "shares" \in DOMAIN stock_info[1]) =>
          valuation[1] = calculate_per_pbr(Reduced(data, Len(data)),
                                           stock_info[1].price, stock_info[1].shares)
    /\ companies_comparison_data # <<>> =>
          \A c \in DOMAIN companies_comparison_data[1] :
              LET pd == companies_comparison_data[1][c].v.prepared_data
              IN /\ companies_comparison_data[1][c].v.ratios
                       = calculate_ratios(Reduced(pd, Len(pd)))
                 /\ \A j \in DOMAIN pd :
                       FetchYearOf(pd[j]) = Years[3] =>
                          \E k \in LastOfCategory(pd) :
                             /\ pd[k].base_display_name = pd[j].base_display_name
                             /\ FetchYearOf(pd[k]) = Years[3]

\* a company whose three yearly fetches all returned revenue and operating
\* income: its operating margin is that of the records of year Y-2,
\* 100,000 / 600,000
C28_Witness ==
    /\ Compared
    /\ LET pd == companies_comparison_data[1][1].v.prepared_data
       IN /\ Len(pd) = 6
          /\ \A j \in DOMAIN pd : pd[j].thstrm_dt # ""
    /\ companies_comparison_data[1][1].v.ratios["OperatingMargin"]["thstrm"]
          = [n |-> 50, d |-> 3]


(***************************************************************************)
(* Properties of two concurrent attempts                                   *)
(***************************************************************************)
\* C29: two attempts for the same document use the same temporary file, and
\* in every interleaving each attempt reads the content of a completed
\* download, no attempt fails for a file the other deleted or rewrote, and
\* the file does not exist once both attempts have returned.
C29_SharedTempFile ==
    /\ \A a \in Attempts :
          (aread[a] # <<>> /\ aread[a][1].content # <<>>)
              => aread[a][1].content = <<"complete">>
    /\ \A a \in Attempts :
          (aout[a] # <<>> /\ ~aout[a][1].ok)
              => aout[a][1].cause \in {"download", "extract", "parse", "llm"}
    /\ (\A a \in Attempts : apc[a] = "done") => ~tmp.exists

\* with both downloads succeeding: both attempts read complete content and
\* the file is gone when both have returned
C29_SuccessfulDownloads ==
    (\A a \in Attempts : aout[a] = <<>> \/ aout[a][1].cause # "download") =>
        /\ \A a \in Attempts :
              (aread[a] # <<>> /\ aread[a][1].content # <<>>)
                  => aread[a][1].content = <<"complete">>
        /\ (\A a \in Attempts : apc[a] = "done") => ~tmp.exists

\* C30: when the directory download raises during get_corp_list, on first
\* access or on a forced refresh, the exception reaches the caller and the
\* cache of the service keeps the value it had before the call; a call
\* without force_refresh on a populated cache returns that list without a
\* download, and a call on a never-populated cache downloads.
C30_FailedDownloadKeepsCache ==
    last_access # <<>> =>
        LET a == last_access[1]
        IN /\ a.raised =>
                 /\ a.downloaded
                 /\ a.returned = <<>>
                 /\ services[a.service]._corp_list_cache = a.before
           /\ (a.downloaded /\ ~a.raised) =>
                 (a.returned # <<>> /\ services[a.service]._corp_list_cache = a.returned)
           /\ (a.before # <<>> /\ ~a.force_refresh) =>
                 (~a.downloaded /\ ~a.raised /\ a.returned = a.before)
           /\ a.before = <<>> => a.downloaded

\* a forced refresh raised on a service whose cache held a list
C30_Witness ==
    /\ last_access # <<>>
    /\ last_access[1].raised
    /\ last_access[1].force_refresh
    /\ last_access[1].before # <<>>
    /\ services[last_access[1].service]._corp_list_cache = last_access[1].before

====
